---------------------------- MODULE Spec2Model ----------------------------
(***************************************************************************)
(* Model of the galaxy-sandbox simulation core and of the engine's frame   *)
(* loop.                                                                   *)
(*                                                                         *)
(* Numbers are modelled as integers.  Angles are degrees restricted to     *)
(* multiples of 90 (where sine and cosine are exact), eccentricity is 0    *)
(* (where Kepler's equation has the closed solution E = M).                *)
(*                                                                         *)
(* JavaScript objects have identity: body records, position / velocity     *)
(* arrays and body lists live in a heap (objs, arrs, lists) and are        *)
(* referred to by address, so that sharing and in-place mutation are       *)
(* visible.                                                                *)
(***************************************************************************)
EXTENDS Integers, Sequences, FiniteSets, TLC

VARIABLES
    \* ---- time flow controller (advanceTime) ----
    at_t, at_dt, at_timeScale, at_paused, at_result,
    at_dtNaN,    \* the dt of the last advanceTime call was NaN (at_dt is then 0)
    at_resultNaN, \* advanceTime returned NaN (at_result is then <<>>)
    \* ---- simulation core: heap and call record ----
    objs,        \* heap of body records, address = index
    arrs,        \* heap of Vec3 arrays, address = index
    lists,       \* heap of body lists (sequences of record addresses)
    cur,         \* address of the current body list (output of the last call)
    lastCall,    \* the last call: its arguments and what its input looked like
    calls,       \* number of calls so far
    prevList,    \* address of the list the current step started from
    prevDeep,    \* deep value of prevList when the step started
    stepOps,     \* the stages called since the step started
    fo,          \* FloatingOrigin: [originOffset, threshold]
    cameraPos, cameraTarget,
    \* ---- engine frame loop (ThreeRoot) ----
    started, rafPending, paused, stepOnce, time, timeScale, snapshot,
    asteroids, impacts, frameLog, lastFrame, stepDts, frames,
    staleStep,   \* the model's note: the pending step request is older than the pause
    \* ---- application: store, save slots, the engine's last snapshot ----
    store,              \* the zustand store: bodies, selectedId, originOffset, time, settings, tools
    slots,              \* the save slots of the database: slot -> <<>> or <<snapshot>>
    lastWorldSnapshot,  \* ThreeRoot.lastWorldSnapshot: <<>> or <<snapshot>>
    saveOp,             \* the last save or load: [op, slot]; the last preset: [op, id]
    \* ---- gameplay: challenges ----
    challenges,         \* store.challenges: [progress, completed], each id -> <<>> or <<value>>
    chTimers,           \* the timers kept on tickChallenges: [defend, bh, moon], <<>> or <<seconds>>
    chLog               \* the model's note of the ticks so far: <<scene, dt>>

timeVars == <<at_t, at_dt, at_timeScale, at_paused, at_result, at_dtNaN, at_resultNaN>>
coreVars == <<objs, arrs, lists, cur, lastCall, calls, prevList, prevDeep,
              stepOps, fo, cameraPos, cameraTarget>>
loopVars == <<started, rafPending, paused, stepOnce, time, timeScale, snapshot,
              asteroids, impacts, frameLog, lastFrame, stepDts, frames, staleStep>>
saveVars == <<store, slots, lastWorldSnapshot, saveOp>>
gameVars == <<challenges, chTimers, chLog>>
vars == <<timeVars, coreVars, loopVars, saveVars, gameVars>>

Max(a, b) == IF a >= b THEN a ELSE b
Min(a, b) == IF a <= b THEN a ELSE b

---------------------------------------------------------------------------
(* utils/math.ts *)

V3add(a, b) == <<a[1] + b[1], a[2] + b[2], a[3] + b[3]>>
V3sub(a, b) == <<a[1] - b[1], a[2] - b[2], a[3] - b[3]>>
V3mul(a, s) == <<a[1] * s, a[2] * s, a[3] * s>>
V3dot(a, b) == a[1] * b[1] + a[2] * b[2] + a[3] * b[3]

Zero3 == <<0, 0, 0>>

---------------------------------------------------------------------------
(* simulation/timeflow.ts *)

advanceTime_ignoresPause(t, dt, ts, p) == t + dt * ts

advanceTime(t, dt, ts, p) == IF p THEN t ELSE t + dt * ts

---------------------------------------------------------------------------
(* world/types.ts: Body, Orbit.  A heap record of a body is                *)
(*   [id, kind, visible, position, velocity, radius, mass, orbit]          *)
(* where position and velocity are addresses into arrs and orbit is <<>>   *)
(* (no descriptor) or <<o>> with o an Orbit record.                        *)

BodyKind == {"Star", "Planet", "Moon", "Asteroid", "Debris", "BlackHole"}

HasOrbit(b) == b.orbit # <<>>

\* The value of a body: its record with the arrays read out of the heap.
Deep(b, A) == [b EXCEPT !.position = A[b.position], !.velocity = A[b.velocity]]

\* The value of a body list: the values of its bodies, in order.
DeepList(l, O, A) == [i \in 1..Len(l) |-> Deep(O[l[i]], A)]

\* Rank of index i among the indices S (1 for the smallest).
Rank(S, i) == Cardinality({j \in S : j <= i})
Nth(S, k) == CHOOSE i \in S : Rank(S, i) = k

\* Division truncated toward zero, and the integer square root.
TDiv(a, b) == IF a >= 0 THEN a \div b ELSE -((-a) \div b)
ISqrt(n) == CHOOSE r \in 0..n : r * r <= n /\ (r + 1) * (r + 1) > n

---------------------------------------------------------------------------
(* simulation/kepler.ts *)

\* Math.cos / Math.sin of a*DEG for a a multiple of 90 degrees.
Norm360(a) == ((a % 360) + 360) % 360
CosDeg(a) == CASE Norm360(a) = 0 -> 1 [] Norm360(a) = 180 -> -1 [] OTHER -> 0
SinDeg(a) == CASE Norm360(a) = 90 -> 1 [] Norm360(a) = 270 -> -1 [] OTHER -> 0

rotX(v, a) == <<v[1],
                v[2] * CosDeg(a) - v[3] * SinDeg(a),
                v[2] * SinDeg(a) + v[3] * CosDeg(a)>>
rotZ(v, a) == <<v[1] * CosDeg(a) - v[2] * SinDeg(a),
                v[1] * SinDeg(a) + v[2] * CosDeg(a),
                v[3]>>

\* Newton-Raphson on E, a fixed number of iterations.  With e = 0 the
\* residual is f = E - M and its derivative fp = 1.
RECURSIVE Newton(_, _, _, _)
Newton(E, M, e, i) ==
    IF i = 0 THEN E
    ELSE LET f  == E - e * SinDeg(E) - M
             fp == 1 - e * CosDeg(E)
         IN  Newton(E - TDiv(f, Max(1, fp)), M, e, i - 1)

KeplerIterations == 6

keplerSolve(M, e) == Newton(M, M, e, KeplerIterations)

\* Lines 40-56 of updateKeplerOrbits: the offset from the parent.  n*t is
\* 360*t/period degrees; the true anomaly of a circular orbit is E.
OrbitOffset(o, t, distanceScale) ==
    LET M == (o.meanAnomalyAtEpochDeg + (360 * t) \div Max(1, o.period)) % 360
        e == o.eccentricity
        a == o.semiMajorAxis * distanceScale
        E == keplerSolve(M, e)
        r == a * (1 - e * CosDeg(E))
        trueAnom == E
        p0 == <<r * CosDeg(trueAnom), 0, r * SinDeg(trueAnom)>>
        p1 == rotZ(p0, o.argumentPeriapsisDeg)
        p2 == rotX(p1, o.inclinationDeg)
    IN  rotZ(p2, o.longitudeAscendingNodeDeg)

\* The slip of falling back to the first body of the list (the sun) when the
\* id is not in the map.
ByIdIndex_defaultsToFirst(l, O, id) ==
    LET S == {i \in 1..Len(l) : O[l[i]].id = id}
    IN  IF S = {} THEN 1 ELSE CHOOSE i \in S : \A j \in S : j <= i

\* byId = new Map(bodies.map(b => [b.id, b])): the last entry of an id wins.
\* The index in l of the body the map holds for id, or 0.
ByIdIndex(l, O, id) ==
    LET S == {i \in 1..Len(l) : O[l[i]].id = id}
    IN  IF S = {} THEN 0 ELSE CHOOSE i \in S : \A j \in S : j <= i

\* The position the orbit is placed around: the parent record held by byId,
\* which is a record of the input list.
ParentPosition(l, O, A, b) == A[O[l[ByIdIndex(l, O, b.orbit[1].parentId)]].position]

\* The record of the parent spread in place of the body's own: the slip of
\* writing {...parent, position} for {...b, position}.
KeplerRecord_spreadsParent(l, O, b, posAddr) ==
    [O[l[ByIdIndex(l, O, b.orbit[1].parentId)]] EXCEPT !.position = posAddr]

\* { ...b, position: worldPos, velocity: b.velocity }
KeplerRecord(l, O, b, posAddr) == [b EXCEPT !.position = posAddr]

\* updateKeplerOrbits(bodies, t, distanceScale, mode) on heap H; l is the
\* address of bodies.  The result is the heap after the call and the address
\* of the returned list.
updateKeplerOrbits(H, l, t, distanceScale, mode) ==
    IF mode # "Realistic" THEN [objs |-> H.objs, arrs |-> H.arrs, lists |-> H.lists, out |-> l]
    ELSE
    LET L == H.lists[l]
        O == H.objs
        A == H.arrs
        moved == {i \in 1..Len(L) :
                     /\ HasOrbit(O[L[i]])
                     /\ ByIdIndex(L, O, O[L[i]].orbit[1].parentId) # 0}
        n == Cardinality(moved)
        newArr(k) == LET b == O[L[Nth(moved, k)]]
                     IN  V3add(ParentPosition(L, O, A, b),
                               OrbitOffset(b.orbit[1], t, distanceScale))
        newObj(k) == KeplerRecord(L, O, O[L[Nth(moved, k)]], Len(A) + k)
        outList == [i \in 1..Len(L) |->
                      IF i \in moved THEN Len(O) + Rank(moved, i) ELSE L[i]]
    IN  [objs  |-> O \o [k \in 1..n |-> newObj(k)],
         arrs  |-> A \o [k \in 1..n |-> newArr(k)],
         lists |-> Append(H.lists, outList),
         out   |-> Len(H.lists) + 1]

---------------------------------------------------------------------------
(* simulation/gravity.ts *)

\* The floor of the squared distance, Math.max(1e-6, d2), is 1/MicroPerUnit.
MicroPerUnit == 1000000

\* accelFrom(source, targetPos, G): r * (G*mass/d2) / d.  When r.r = 0 the
\* vector r is zero and so is the product; otherwise the floor is inactive.
accelFrom(src, srcPos, targetPos, G) ==
    LET r  == V3sub(srcPos, targetPos)
        d2 == V3dot(r, r)
    IN  IF d2 = 0 THEN Zero3
        ELSE LET den == d2 * Max(1, ISqrt(d2))
             IN  <<TDiv(r[1] * G * src.mass, den),
                   TDiv(r[2] * G * src.mass, den),
                   TDiv(r[3] * G * src.mass, den)>>

\* The filter of computeTopKInfluencers.
IsCandidate(b, target) ==
    /\ b.id # target.id
    /\ b.visible
    /\ b.kind \in {"Star", "Planet", "Moon", "BlackHole"}

\* m1 / max(1e-6, d1) > m2 / max(1e-6, d2) for integers d1, d2 >= 0, by
\* cross multiplication; a squared distance of 0 is floored to
\* 1/MicroPerUnit.
RatioGreater(m1, d1, m2, d2) ==
    CASE d1 > 0 /\ d2 > 0 -> m1 * d2 > m2 * d1
      [] d1 = 0 /\ d2 = 0 -> m1 > m2
      [] d1 = 0 /\ d2 > 0 -> m1 * d2 > m2 \div MicroPerUnit
      [] OTHER -> m2 * d1 < (m1 + MicroPerUnit - 1) \div MicroPerUnit

\* score(b) > score(c), for score = mass / max(1e-6, d2).
ScoreGreater(b, bPos, c, cPos, tPos) ==
    RatioGreater(b.mass, V3dot(V3sub(bPos, tPos), V3sub(bPos, tPos)),
                 c.mass, V3dot(V3sub(cPos, tPos), V3sub(cPos, tPos)))

\* The slip of leaving out the sort: the first k candidates in list order.
computeTopKInfluencers_unsorted(l, O, A, ti, k) ==
    LET cand == {i \in 1..Len(l) : IsCandidate(O[l[i]], O[l[ti]])}
        m == Min(k, Cardinality(cand))
    IN  [p \in 1..m |-> Nth(cand, p)]

\* computeTopKInfluencers(bodies, target, k): the indices into l of the
\* result, in result order.  The sort is stable and descending by score.
computeTopKInfluencers(l, O, A, ti, k) ==
    LET target == O[l[ti]]
        tPos   == A[target.position]
        cand   == {i \in 1..Len(l) : IsCandidate(O[l[i]], target)}
        before(j, i) ==
            \/ ScoreGreater(O[l[j]], A[O[l[j]].position], O[l[i]], A[O[l[i]].position], tPos)
            \/ /\ ~ScoreGreater(O[l[i]], A[O[l[i]].position], O[l[j]], A[O[l[j]].position], tPos)
               /\ j < i
        place(i) == Cardinality({j \in cand : before(j, i)}) + 1
        m == Min(k, Cardinality(cand))
    IN  [p \in 1..m |-> CHOOSE i \in cand : place(i) = p]

\* The bodies the loop of applyGravityStep does not skip.
GravityFree(b) ==
    /\ b.visible
    /\ b.kind # "Star"
    /\ ~(HasOrbit(b) /\ b.kind # "Asteroid" /\ b.kind # "Debris")
    /\ b.kind # "BlackHole"

RECURSIVE SumAccel(_, _, _, _, _, _)
SumAccel(l, O, A, infl, tPos, G) ==
    IF infl = <<>> THEN Zero3
    ELSE LET s == O[l[Head(infl)]]
         IN  V3add(accelFrom(s, A[s.position], tPos, G),
                   SumAccel(l, O, A, Tail(infl), tPos, G))

\* The velocity applyGravityStep assigns to body ti of the copied list.
GravityVelocity(l, O, A, ti, dt, cfg) ==
    LET b == O[l[ti]]
        a == SumAccel(l, O, A, computeTopKInfluencers(l, O, A, ti, cfg.topK),
                      A[b.position], cfg.G)
    IN  V3add(A[b.velocity], V3mul(a, dt))

\* The slip of leaving out the copy (bodies.map(b => b)): the new velocity
\* array is assigned to the record of the input list.
applyGravityStep_noCopy(H, l, dt, cfg) ==
    LET L == H.lists[l]
        O == H.objs
        A == H.arrs
        free == {i \in 1..Len(L) : GravityFree(O[L[i]])}
        nf == Cardinality(free)
        freeAddrs == {L[i] : i \in free}
        idx(a) == CHOOSE i \in free : L[i] = a
    IN  [objs  |-> [a \in 1..Len(O) |->
                      IF a \in freeAddrs
                      THEN [O[a] EXCEPT !.velocity = Len(A) + Rank(free, idx(a))]
                      ELSE O[a]],
         arrs  |-> A \o [k \in 1..nf |-> GravityVelocity(L, O, A, Nth(free, k), dt, cfg)],
         lists |-> Append(H.lists, L),
         out   |-> Len(H.lists) + 1]

\* applyGravityStep(bodies, dt, cfg): out = bodies.map(b => ({...b})), then
\* a new velocity array for every body that is not skipped.  Positions are
\* not written, so the order of the loop does not matter.
applyGravityStep(H, l, dt, cfg) ==
    LET L == H.lists[l]
        O == H.objs
        A == H.arrs
        n == Len(L)
        free == {i \in 1..n : GravityFree(O[L[i]])}
        nf == Cardinality(free)
        copy(i) == IF i \in free
                   THEN [O[L[i]] EXCEPT !.velocity = Len(A) + Rank(free, i)]
                   ELSE O[L[i]]
    IN  [objs  |-> O \o [i \in 1..n |-> copy(i)],
         arrs  |-> A \o [k \in 1..nf |-> GravityVelocity(L, O, A, Nth(free, k), dt, cfg)],
         lists |-> Append(H.lists, [i \in 1..n |-> Len(O) + i]),
         out   |-> Len(H.lists) + 1]

---------------------------------------------------------------------------
(* simulation/integrator.ts *)

\* The bodies integrateBodies does not pass through.
IntegrateFree(b) ==
    /\ b.visible
    /\ b.kind # "Star"
    /\ ~(HasOrbit(b) /\ b.kind # "Asteroid" /\ b.kind # "Debris")
    /\ b.kind # "BlackHole"

\* The slip of leaving out the factor dt: position + velocity.
integrateBodies_ignoresDt(H, l, dt) ==
    LET L == H.lists[l]
        O == H.objs
        A == H.arrs
        free == {i \in 1..Len(L) : IntegrateFree(O[L[i]])}
        nf == Cardinality(free)
        newArr(k) == LET b == O[L[Nth(free, k)]]
                     IN  V3add(A[b.position], A[b.velocity])
        newObj(k) == [O[L[Nth(free, k)]] EXCEPT !.position = Len(A) + k]
    IN  [objs  |-> O \o [k \in 1..nf |-> newObj(k)],
         arrs  |-> A \o [k \in 1..nf |-> newArr(k)],
         lists |-> Append(H.lists, [i \in 1..Len(L) |->
                      IF i \in free THEN Len(O) + Rank(free, i) ELSE L[i]]),
         out   |-> Len(H.lists) + 1]

\* integrateBodies(bodies, dt)
integrateBodies(H, l, dt) ==
    LET L == H.lists[l]
        O == H.objs
        A == H.arrs
        free == {i \in 1..Len(L) : IntegrateFree(O[L[i]])}
        nf == Cardinality(free)
        newArr(k) == LET b == O[L[Nth(free, k)]]
                     IN  V3add(A[b.position], V3mul(A[b.velocity], dt))
        newObj(k) == [O[L[Nth(free, k)]] EXCEPT !.position = Len(A) + k]
    IN  [objs  |-> O \o [k \in 1..nf |-> newObj(k)],
         arrs  |-> A \o [k \in 1..nf |-> newArr(k)],
         lists |-> Append(H.lists, [i \in 1..Len(L) |->
                      IF i \in free THEN Len(O) + Rank(free, i) ELSE L[i]]),
         out   |-> Len(H.lists) + 1]

---------------------------------------------------------------------------
(* engine/FloatingOrigin.ts *)

Threshold == 400

\* The slip of a wrong sign in the loop of applyShift: b.position[k] += shift.
applyShift_addsToBodies(F, H, l, shift, cam, target) ==
    LET L == H.lists[l]
        O == H.objs
        hits(a) == Cardinality({i \in 1..Len(L) : O[L[i]].position = a})
    IN  [fo     |-> [F EXCEPT !.originOffset = V3add(F.originOffset, shift)],
         arrs   |-> [a \in 1..Len(H.arrs) |-> V3add(H.arrs[a], V3mul(shift, hits(a)))],
         cam    |-> V3sub(cam, shift),
         target |-> V3sub(target, shift)]

\* applyShift(shift, bodies, cameraPos, cameraTarget): the loop subtracts
\* the shift from b.position in place, once per list entry, so an array
\* that several entries hold is shifted once for each.
applyShift(F, H, l, shift, cam, target) ==
    LET L == H.lists[l]
        O == H.objs
        hits(a) == Cardinality({i \in 1..Len(L) : O[L[i]].position = a})
    IN  [fo     |-> [F EXCEPT !.originOffset = V3add(F.originOffset, shift)],
         arrs   |-> [a \in 1..Len(H.arrs) |-> V3sub(H.arrs[a], V3mul(shift, hits(a)))],
         cam    |-> V3sub(cam, shift),
         target |-> V3sub(target, shift)]

\* The slip of leaving the look-target out of the shift.
maybeRecenter_keepsTarget(F, H, l, cam, target) ==
    IF V3dot(cam, cam) < F.threshold * F.threshold
    THEN [fo |-> F, arrs |-> H.arrs, cam |-> cam, target |-> target]
    ELSE LET shift == cam
         IN  [fo     |-> [F EXCEPT !.originOffset = V3add(F.originOffset, shift)],
              arrs   |-> [a \in 1..Len(H.arrs) |->
                            IF \E i \in 1..Len(H.lists[l]) : H.objs[H.lists[l][i]].position = a
                            THEN V3sub(H.arrs[a], shift) ELSE H.arrs[a]],
              cam    |-> V3sub(cam, shift),
              target |-> target]

\* maybeRecenter(bodies, cameraPos, cameraTarget): d < threshold compared
\* on the squares.
maybeRecenter(F, H, l, cam, target) ==
    IF V3dot(cam, cam) < F.threshold * F.threshold
    THEN [fo |-> F, arrs |-> H.arrs, cam |-> cam, target |-> target]
    ELSE applyShift(F, H, l, cam, cam, target)

---------------------------------------------------------------------------
(* The simulation core driven by a host: a body list handed to            *)
(* updateKeplerOrbits, applyGravityStep, integrateBodies and              *)
(* FloatingOrigin.maybeRecenter in any order.                             *)

MaxBodies == 3
MaxCalls == 3

Times == {0, 1}
Dts == {2}
\* The (t, mode) arguments of updateKeplerOrbits: t is not read in Chaos mode.
KeplerArgs == {<<t, "Realistic">> : t \in Times} \cup {<<0, "Chaos">>}
TopKs == {1, 2}
DistanceScales == {2}
GScale == 1

\* Camera positions a host can hand to maybeRecenter: at the origin, at
\* distance 400 and at distance 500 from it.
CameraChoices == {Zero3, <<240, 0, 320>>, <<300, 0, 400>>}

SlotKinds(i) ==
    CASE i = 1 -> {"Star", "BlackHole"}
      [] i = 2 -> {"Planet", "Asteroid"}
      [] i = 3 -> {"Moon", "Debris"}
      [] OTHER -> {"Debris"}

\* The ids an orbit of slot i may name as its parent; 0 for no orbit and
\* -1 for an id that no body of the list has.
SlotParents(i, n) ==
    CASE i = 1 -> {0} \cup (IF n >= 2 THEN {2} ELSE {})
      [] i = 2 -> {0, 1, -1}
      [] i = 3 -> {0, 2}
      [] OTHER -> {0}

\* An invisible body is a Debris without orbit in slot 3.
SlotVisible(i, kind, parent) ==
    IF i = 3 /\ kind = "Debris" /\ parent = 0 THEN BOOLEAN ELSE {TRUE}

KindMass(k) == IF k \in {"Star", "BlackHole"} THEN 64
               ELSE IF k \in {"Planet", "Moon"} THEN 8 ELSE 1

SlotPos(i) == <<2 * (i - 1), 0, 0>>
SlotVel(i) == <<0, i, 0>>

SlotOrbit(i, parent) ==
    IF parent = 0 THEN <<>>
    ELSE <<[parentId |-> parent,
            semiMajorAxis |-> i,
            eccentricity |-> 0,
            inclinationDeg |-> IF i = 2 THEN 90 ELSE 0,
            longitudeAscendingNodeDeg |-> IF i = 3 THEN 90 ELSE 0,
            argumentPeriapsisDeg |-> IF i = 3 THEN 90 ELSE 0,
            meanAnomalyAtEpochDeg |-> 0,
            period |-> 4]>>

\* The choices of a scene of n bodies: per slot a kind, a parent and a
\* visibility.
SceneChoices(n) ==
    [1..n -> (BodyKind \X {-1, 0, 1, 2} \X BOOLEAN)]

\* No two bodies orbit each other, the orbit with the unresolvable parent
\* is a Planet's, and an Asteroid or a Moon carries an orbit (the small body
\* without one is the Debris).
SceneOk(n, c) ==
    /\ \A i \in 1..n : /\ c[i][1] \in SlotKinds(i)
                       /\ c[i][2] \in SlotParents(i, n)
                       /\ c[i][3] \in SlotVisible(i, c[i][1], c[i][2])
                       /\ c[i][2] = -1 => c[i][1] = "Planet"
                       /\ c[i][1] \in {"Asteroid", "Moon"} => c[i][2] # 0
    /\ n >= 2 => ~(c[1][2] = 2 /\ c[2][2] = 1)

SceneObjs(n, c) ==
    [i \in 1..n |-> [id |-> i, kind |-> c[i][1], visible |-> c[i][3],
                     position |-> 2 * i - 1, velocity |-> 2 * i,
                     radius |-> 1, mass |-> KindMass(c[i][1]),
                     orbit |-> SlotOrbit(i, c[i][2])]]

SceneArrs(n) ==
    [a \in 1..(2 * n) |-> IF a % 2 = 1 THEN SlotPos((a + 1) \div 2)
                          ELSE SlotVel(a \div 2)]

NoCall == [op |-> "none", t |-> 0, dt |-> 0, mode |-> "none", topK |-> 0,
           inList |-> 0, inSeq |-> <<>>, inRecs |-> <<>>, inDeep |-> <<>>,
           nObjs |-> 0, nArrs |-> 0]

TimeIdle ==
    /\ at_t = 0 /\ at_dt = 0 /\ at_timeScale = 0 /\ at_paused = FALSE
    /\ at_result = <<>> /\ at_dtNaN = FALSE /\ at_resultNaN = FALSE

LoopIdle ==
    /\ started = FALSE /\ rafPending = 0 /\ paused = FALSE
    /\ stepOnce = FALSE /\ time = 0 /\ timeScale = 0 /\ snapshot = <<>>
    /\ asteroids = <<>> /\ impacts = <<>> /\ frameLog = <<>>
    /\ lastFrame = <<>> /\ stepDts = {} /\ frames = 0 /\ staleStep = FALSE

GameIdle ==
    /\ challenges = <<>> /\ chTimers = <<>> /\ chLog = <<>>

SaveIdle ==
    /\ store = <<>> /\ slots = <<>> /\ lastWorldSnapshot = <<>> /\ saveOp = <<>>

CoreIdle ==
    /\ objs = <<>> /\ arrs = <<>> /\ lists = <<>> /\ cur = 0
    /\ lastCall = NoCall /\ calls = 0 /\ prevList = 0 /\ prevDeep = <<>>
    /\ stepOps = <<>> /\ fo = <<>> /\ cameraPos = Zero3 /\ cameraTarget = Zero3

CoreInit ==
    /\ TimeIdle
    /\ LoopIdle
    /\ SaveIdle
    /\ GameIdle
    /\ \E n \in 1..MaxBodies : \E c \in SceneChoices(n) :
          /\ SceneOk(n, c)
          /\ objs = SceneObjs(n, c)
          /\ arrs = SceneArrs(n)
          /\ lists = << [i \in 1..n |-> i] >>
          /\ prevDeep = DeepList([i \in 1..n |-> i], SceneObjs(n, c), SceneArrs(n))
    /\ cur = 1
    /\ lastCall = NoCall
    /\ calls = 0
    /\ prevList = 1
    /\ stepOps = <<>>
    /\ fo = [originOffset |-> Zero3, threshold |-> Threshold]
    /\ cameraPos = Zero3
    /\ cameraTarget = Zero3

Heap == [objs |-> objs, arrs |-> arrs, lists |-> lists]

\* What a call records about its arguments and its input before it runs.
CallRecord(op, t, dt, mode, topK) ==
    [op |-> op, t |-> t, dt |-> dt, mode |-> mode, topK |-> topK,
     inList |-> cur, inSeq |-> lists[cur],
     inRecs |-> [i \in 1..Len(lists[cur]) |-> objs[lists[cur][i]]],
     inDeep |-> DeepList(lists[cur], objs, arrs),
     nObjs |-> Len(objs), nArrs |-> Len(arrs)]

\* A step starts at the first stage called after a rebase (or at the start).
StepBookkeeping(op) ==
    IF lastCall.op = "rebase"
    THEN /\ prevList' = cur
         /\ prevDeep' = DeepList(lists[cur], objs, arrs)
         /\ stepOps' = <<op>>
    ELSE /\ UNCHANGED <<prevList, prevDeep>>
         /\ stepOps' = Append(stepOps, op)

\* A stage returned R: the host takes the returned list as the current one.
Commit(R) ==
    /\ objs' = R.objs
    /\ arrs' = R.arrs
    /\ lists' = R.lists
    /\ cur' = R.out
    /\ calls' = calls + 1
    /\ UNCHANGED <<fo, cameraPos, cameraTarget, timeVars, loopVars, saveVars, gameVars>>

CallKepler ==
    /\ calls < MaxCalls
    /\ \E a \in KeplerArgs, ds \in DistanceScales :
          /\ Commit(updateKeplerOrbits(Heap, cur, a[1], ds, a[2]))
          /\ lastCall' = CallRecord("kepler", a[1], ds, a[2], 0)
    /\ StepBookkeeping("kepler")

CallGravity ==
    /\ calls < MaxCalls
    /\ \E dt \in Dts, k \in TopKs :
          /\ Commit(applyGravityStep(Heap, cur, dt, [G |-> GScale, topK |-> k]))
          /\ lastCall' = CallRecord("gravity", 0, dt, "none", k)
    /\ StepBookkeeping("gravity")

CallIntegrate ==
    /\ calls < MaxCalls
    /\ \E dt \in Dts :
          /\ Commit(integrateBodies(Heap, cur, dt))
          /\ lastCall' = CallRecord("integrate", 0, dt, "none", 0)
    /\ StepBookkeeping("integrate")

CallRebase ==
    /\ calls < MaxCalls
    /\ \E cam \in CameraChoices :
          LET R == maybeRecenter(fo, Heap, cur, cam, V3add(cam, <<0, 0, -10>>))
          IN  /\ fo' = R.fo
              /\ arrs' = R.arrs
              /\ cameraPos' = R.cam
              /\ cameraTarget' = R.target
              /\ lastCall' = [CallRecord("rebase", 0, 0, "none", 0) EXCEPT !.t = cam]
    /\ calls' = calls + 1
    /\ UNCHANGED <<objs, lists, cur, prevList, prevDeep, stepOps, timeVars, loopVars, saveVars, gameVars>>

CoreNext == CallKepler \/ CallGravity \/ CallIntegrate \/ CallRebase

SpecCore == CoreInit /\ [][CoreNext]_vars

---------------------------------------------------------------------------
(* Properties of the simulation core *)

Stages == {"kepler", "gravity", "integrate"}

\* The value of the list the last call returned, and of the list it was given.
OutDeep == DeepList(lists[cur], objs, arrs)
InDeep == lastCall.inDeep

Ids(d) == {d[i].id : i \in 1..Len(d)}
UniqueIds(d) == \A i, j \in 1..Len(d) : d[i].id = d[j].id => i = j

\* C5: after any sequence of updateKeplerOrbits, applyGravityStep and
\* integrateBodies calls on a list with unique ids, the output list is not
\* longer than the input, holds no id the input did not hold, keeps the id
\* of each body, and holds no id twice.  Stated for the last call against
\* its input and for the whole sequence against the first list.
C5_NoNewBodies ==
    /\ lastCall.op \in Stages =>
          /\ Len(OutDeep) <= Len(InDeep)
          /\ Ids(OutDeep) \subseteq Ids(InDeep)
          /\ \A i \in 1..Len(OutDeep) : OutDeep[i].id = InDeep[i].id
    /\ Len(lists[cur]) <= Len(lists[1])
    /\ \A i \in 1..Len(lists[cur]) : objs[lists[cur][i]].id = objs[lists[1][i]].id
    /\ UniqueIds(OutDeep)

\* Orbit evaluation, gravity and integration have each returned a new list
\* of three bodies, one of them moved onto its orbit.
C5_Witness ==
    /\ stepOps = <<"kepler", "gravity", "integrate">>
    /\ Len(lists[cur]) = 3
    /\ Len(lists) = 4
    /\ \E i \in 1..3 : objs[lists[2][i]].position # objs[lists[1][i]].position

\* C6: updateKeplerOrbits, applyGravityStep and integrateBodies do not
\* mutate the list or the body records they are given: after the call the
\* input list holds the same records, every record of it has the fields and
\* the position and velocity it had before, and a body whose value changed
\* is a record allocated by the call.
C6_InputNotMutated ==
    lastCall.op \in Stages =>
        /\ lists[lastCall.inList] = lastCall.inSeq
        /\ \A i \in 1..Len(lastCall.inSeq) :
              objs[lastCall.inSeq[i]] = lastCall.inRecs[i]
        /\ DeepList(lastCall.inSeq, objs, arrs) = InDeep
        /\ \A i \in 1..Len(OutDeep) :
              OutDeep[i] # InDeep[i] => lists[cur][i] > lastCall.nObjs

\* Gravity changed the velocity of a body.
C6_Witness ==
    /\ lastCall.op = "gravity"
    /\ \E i \in 1..Len(OutDeep) : OutDeep[i].velocity # InDeep[i].velocity

\* C7: the list a step started from stays valid across a rebase of the
\* step's output: after maybeRecenter on the list gravity / integration
\* returned, the positions held by the pre-step list are what they were.
C7_PrevListValidAcrossRebase ==
    (/\ lastCall.op = "rebase"
     /\ \E k \in 1..Len(stepOps) : stepOps[k] \in {"gravity", "integrate"})
    => \A i \in 1..Len(prevDeep) :
          arrs[objs[lists[prevList][i]].position] = prevDeep[i].position

Immovable(b) == b.kind \in {"Star", "BlackHole"}

\* C8: the position and velocity of every Star and BlackHole are unchanged
\* by orbit evaluation, gravity and integration, also when the body carries
\* an orbit with a resolvable parent.
C8_StarsAndBlackHolesImmovable ==
    lastCall.op \in Stages =>
        \A i \in 1..Len(InDeep) :
            Immovable(InDeep[i]) =>
                /\ OutDeep[i].position = InDeep[i].position
                /\ OutDeep[i].velocity = InDeep[i].velocity

\* C9: an Asteroid or Debris that carries an orbit stays force driven:
\* in Realistic mode updateKeplerOrbits does not place it on the orbit.
\* (applyGravityStep and integrateBodies do drive it: GravityFree and
\* IntegrateFree hold of it.)
C9_SmallBodiesNotOrbitEvaluated ==
    (lastCall.op = "kepler" /\ lastCall.mode = "Realistic") =>
        \A i \in 1..Len(InDeep) :
            (InDeep[i].kind \in {"Asteroid", "Debris"} /\ HasOrbit(InDeep[i]))
                => OutDeep[i].position = InDeep[i].position

\* The index in the value list d of the body with id, or 0.
IndexOfId(d, id) ==
    IF \E i \in 1..Len(d) : d[i].id = id
    THEN CHOOSE i \in 1..Len(d) : d[i].id = id
    ELSE 0

\* C10: after updateKeplerOrbits in Realistic mode every body with an orbit
\* and a resolvable parent is at the parent's position in the same output
\* list plus the orbital offset for t.
C10_OrbitAroundCurrentParent ==
    (lastCall.op = "kepler" /\ lastCall.mode = "Realistic") =>
        \A i \in 1..Len(OutDeep) :
            (HasOrbit(OutDeep[i]) /\ IndexOfId(OutDeep, OutDeep[i].orbit[1].parentId) # 0)
                => OutDeep[i].position =
                     V3add(OutDeep[IndexOfId(OutDeep, OutDeep[i].orbit[1].parentId)].position,
                           OrbitOffset(OutDeep[i].orbit[1], lastCall.t, lastCall.dt))

\* score(i) > score(j) for the bodies i and j of the list L and the target ti.
Outscores(L, i, j, ti) ==
    ScoreGreater(objs[L[i]], arrs[objs[L[i]].position],
                 objs[L[j]], arrs[objs[L[j]].position],
                 arrs[objs[L[ti]].position])

\* C18: computeTopKInfluencers(bodies, target, K) returns min(K, number of
\* candidates) distinct candidates, no candidate left out has a strictly
\* higher score mass / max(1e-6, d2) than a returned one, and the result is
\* in descending order of score.  Stated of the list applyGravityStep was
\* given, for every target of it and K = 1, 2.
C18_TopKAreHighestScores ==
    lastCall.op = "gravity" =>
        \A ti \in 1..Len(lastCall.inSeq) : \A k \in TopKs :
            LET L    == lastCall.inSeq
                res  == computeTopKInfluencers(L, objs, arrs, ti, k)
                cand == {i \in 1..Len(L) : IsCandidate(objs[L[i]], objs[L[ti]])}
                got  == {res[p] : p \in 1..Len(res)}
            IN  /\ Len(res) = Min(k, Cardinality(cand))
                /\ got \subseteq cand
                /\ Cardinality(got) = Len(res)
                /\ \A c \in cand \ got : \A g \in got : ~Outscores(L, c, g, ti)
                /\ \A p, q \in 1..Len(res) : p < q => ~Outscores(L, res[q], res[p], ti)

\* Gravity ran on a list in which a target has two candidates and the later
\* one in list order has the higher score, so top-1 leaves the earlier out.
C18_Witness ==
    /\ lastCall.op = "gravity"
    /\ \E ti, i, j \in 1..Len(lastCall.inSeq) :
          /\ i < j
          /\ IsCandidate(objs[lastCall.inSeq[i]], objs[lastCall.inSeq[ti]])
          /\ IsCandidate(objs[lastCall.inSeq[j]], objs[lastCall.inSeq[ti]])
          /\ Outscores(lastCall.inSeq, j, i, ti)
          /\ computeTopKInfluencers(lastCall.inSeq, objs, arrs, ti, 1) = <<j>>

\* The position of entry i of the current list, in the heap A.
PosOf(A, i) == A[objs[lists[cur][i]].position]
VelOf(A, i) == A[objs[lists[cur][i]].velocity]

\* C23: maybeRecenter rebases if and only if the camera is farther from the
\* origin than the threshold.  At a distance up to the threshold bodies,
\* camera, look-target and accumulator are left as they are; beyond it
\* every body, the camera and the look-target are shifted by minus the
\* camera position and the accumulator grows by the camera position.
C23_RebaseOnlyBeyondThreshold ==
    [][lastCall'.op = "rebase" =>
          LET cam    == lastCall'.t
              target == V3add(cam, <<0, 0, -10>>)
          IN  IF V3dot(cam, cam) <= Threshold * Threshold
              THEN /\ arrs' = arrs
                   /\ fo' = fo
                   /\ cameraPos' = cam
                   /\ cameraTarget' = target
              ELSE /\ \A i \in 1..Len(lists[cur]) : PosOf(arrs', i) = V3sub(PosOf(arrs, i), cam)
                   /\ fo'.originOffset = V3add(fo.originOffset, cam)
                   /\ cameraPos' = Zero3
                   /\ cameraTarget' = V3sub(target, cam)]_vars

\* The body rec of the list recs cannot be placed on an orbit: it has no
\* orbit descriptor, or its orbit names a parent id no body of the list has.
NotEvaluable(recs, rec) ==
    \/ ~HasOrbit(rec)
    \/ \A j \in 1..Len(recs) : recs[j].id # rec.orbit[1].parentId

\* C22: updateKeplerOrbits is a pass-through where the orbit cannot be
\* evaluated: in a mode other than Realistic the list given is the list
\* returned, unchanged; in Realistic mode a body without orbit descriptor or
\* whose parentId matches no body of the list is returned as the same
\* object with the position it had, the list keeps its length, and the
\* other bodies keep their ids.
C22_KeplerPassThrough ==
    lastCall.op = "kepler" =>
        /\ Len(lists[cur]) = Len(lastCall.inSeq)
        /\ lastCall.mode # "Realistic" =>
              /\ cur = lastCall.inList
              /\ lists[cur] = lastCall.inSeq
              /\ OutDeep = InDeep
        /\ lastCall.mode = "Realistic" =>
              \A i \in 1..Len(lastCall.inSeq) :
                  /\ OutDeep[i].id = InDeep[i].id
                  /\ NotEvaluable(lastCall.inRecs, lastCall.inRecs[i]) =>
                        /\ lists[cur][i] = lastCall.inSeq[i]
                        /\ OutDeep[i] = InDeep[i]

\* A Realistic call on a list that holds a body whose orbit names a missing
\* parent, passed through, next to a body that was placed on its orbit.
C22_Witness ==
    /\ lastCall.op = "kepler"
    /\ lastCall.mode = "Realistic"
    /\ \E i, j \in 1..Len(lastCall.inSeq) :
          /\ HasOrbit(lastCall.inRecs[i])
          /\ NotEvaluable(lastCall.inRecs, lastCall.inRecs[i])
          /\ lists[cur][i] = lastCall.inSeq[i]
          /\ lists[cur][j] # lastCall.inSeq[j]
          /\ OutDeep[j].position # InDeep[j].position

\* C21: integration is semi-implicit.  When integrateBodies is given the
\* output of applyGravityStep, every free visible body ends at
\* position + (velocity + a_total * dt) * dt, with position and velocity as
\* they were before the gravity step; applyGravityStep alone changes no
\* position and integrateBodies alone changes no velocity.
C21_SemiImplicitEuler ==
    [][/\ (lastCall'.op = "integrate" /\ lastCall.op = "gravity") =>
             \A i \in 1..Len(lastCall.inSeq) :
                 GravityFree(objs[lastCall.inSeq[i]]) =>
                     LET b  == objs[lastCall.inSeq[i]]
                         a  == SumAccel(lastCall.inSeq, objs, arrs,
                                        computeTopKInfluencers(lastCall.inSeq, objs, arrs, i,
                                                               lastCall.topK),
                                        arrs[b.position], GScale)
                         v1 == V3add(arrs[b.velocity], V3mul(a, lastCall.dt))
                     IN  PosOf(arrs, i)' = V3add(arrs[b.position], V3mul(v1, lastCall'.dt))
       /\ lastCall'.op = "gravity" =>
             \A i \in 1..Len(lists[cur]) : PosOf(arrs, i)' = PosOf(arrs, i)
       /\ lastCall'.op = "integrate" =>
             \A i \in 1..Len(lists[cur]) : VelOf(arrs, i)' = VelOf(arrs, i)]_vars

\* A step of gravity then integration in which a free body's velocity was
\* changed by gravity and its position advanced by the changed velocity,
\* which is not where the velocity from before the step would have put it.
C21_Witness ==
    /\ stepOps = <<"gravity", "integrate">>
    /\ \E i \in 1..Len(OutDeep) :
          /\ GravityFree(objs[lists[cur][i]])
          /\ OutDeep[i].velocity # prevDeep[i].velocity
          /\ OutDeep[i].position =
                V3add(prevDeep[i].position, V3mul(OutDeep[i].velocity, lastCall.dt))
          /\ OutDeep[i].position #
                V3add(prevDeep[i].position, V3mul(prevDeep[i].velocity, lastCall.dt))

\* The acceleration applyGravityStep sums for target ti of the list L with
\* topK = k.
TotalAccel(L, ti, k) ==
    SumAccel(L, objs, arrs, computeTopKInfluencers(L, objs, arrs, ti, k),
             arrs[objs[L[ti]].position], GScale)

\* C20: for every body list and every free target, the magnitude of the
\* total acceleration applyGravityStep applies with topK = 2 is at least the
\* magnitude it applies with topK = 1.  Stated of the list the last gravity
\* step was given, with the magnitudes squared.
C20_SecondInfluencerNeverWeakens ==
    lastCall.op = "gravity" =>
        \A ti \in 1..Len(lastCall.inSeq) :
            GravityFree(objs[lastCall.inSeq[ti]]) =>
                LET a1 == TotalAccel(lastCall.inSeq, ti, 1)
                    a2 == TotalAccel(lastCall.inSeq, ti, 2)
                IN  V3dot(a2, a2) >= V3dot(a1, a1)

\* C11: a rebase conserves the absolute position of every body: the
\* accumulated origin offset plus the body's position is the same after
\* maybeRecenter as before it, for every rebase of a sequence.
C11_AbsolutePositionConserved ==
    [][lastCall'.op = "rebase" =>
          \A i \in 1..Len(lists[cur]) :
              V3add(fo'.originOffset, PosOf(arrs', i)) = V3add(fo.originOffset, PosOf(arrs, i))]_vars

\* Two rebases have shifted a list of two or more bodies.
C11_Witness ==
    /\ lastCall.op = "rebase"
    /\ fo.originOffset = <<600, 0, 800>>
    /\ Len(lists[cur]) >= 2

\* C12: a rebase is one translation of every body position, the camera
\* position and the camera look-target: the differences between any two
\* bodies, and between a body and the camera and its target, are what they
\* were before maybeRecenter, and no velocity changes.
C12_RebaseIsTranslation ==
    [][lastCall'.op = "rebase" =>
          LET cam    == lastCall'.t
              target == V3add(cam, <<0, 0, -10>>)
          IN  \A i \in 1..Len(lists[cur]) :
                  /\ \A j \in 1..Len(lists[cur]) :
                        V3sub(PosOf(arrs', i), PosOf(arrs', j)) = V3sub(PosOf(arrs, i), PosOf(arrs, j))
                  /\ V3sub(PosOf(arrs', i), cameraPos') = V3sub(PosOf(arrs, i), cam)
                  /\ V3sub(PosOf(arrs', i), cameraTarget') = V3sub(PosOf(arrs, i), target)
                  /\ VelOf(arrs', i) = VelOf(arrs, i)]_vars

\* A rebase beyond the threshold has shifted a list of three bodies that an
\* integration had moved.
C12_Witness ==
    /\ lastCall.op = "rebase"
    /\ lastCall.t = <<300, 0, 400>>
    /\ Len(lists[cur]) = 3
    /\ \E k \in 1..Len(stepOps) : stepOps[k] = "integrate"

---------------------------------------------------------------------------
(* The time flow controller driven by a host: advanceTime called with the  *)
(* time it returned last and any dt, timeScale and paused flag.            *)

MaxT0 == 5
MaxDt == 2
MaxSimTime == 60
TimeScales == {1, 5, 20}

TimeInit ==
    /\ CoreIdle
    /\ LoopIdle
    /\ SaveIdle
    /\ GameIdle
    /\ at_t \in 0..MaxT0
    /\ at_dt = 0
    /\ at_timeScale = 1
    /\ at_paused = FALSE
    /\ at_result = <<>>
    /\ at_dtNaN = FALSE
    /\ at_resultNaN = FALSE

\* t' = advanceTime(t, dt, timeScale, paused); at_t keeps the argument t.
CallAdvanceTime ==
    \E dt \in 0..MaxDt, ts \in TimeScales, p \in BOOLEAN :
        LET t == IF at_result = <<>> THEN at_t ELSE at_result[1]
        IN  /\ ~at_resultNaN
            /\ t + dt * ts <= MaxSimTime
            /\ at_t' = t
            /\ at_dt' = dt
            /\ at_timeScale' = ts
            /\ at_paused' = p
            /\ at_result' = <<advanceTime(t, dt, ts, p)>>
            /\ at_dtNaN' = FALSE
            /\ at_resultNaN' = FALSE
            /\ UNCHANGED <<coreVars, loopVars, saveVars, gameVars>>

\* advanceTime(t, NaN, timeScale, paused): the paused branch returns t
\* without reading dt; the other branch returns t + NaN * timeScale, which
\* is NaN in IEEE arithmetic.  The function has no test of dt.  A host whose
\* time has become NaN is not followed further.
AdvanceTimeOfNaNIsNaN(p) == ~p

CallAdvanceTimeNaN ==
    \E ts \in TimeScales, p \in BOOLEAN :
        LET t == IF at_result = <<>> THEN at_t ELSE at_result[1]
        IN  /\ ~at_resultNaN
            /\ at_t' = t
            /\ at_dt' = 0
            /\ at_dtNaN' = TRUE
            /\ at_timeScale' = ts
            /\ at_paused' = p
            /\ at_resultNaN' = AdvanceTimeOfNaNIsNaN(p)
            /\ at_result' = IF AdvanceTimeOfNaNIsNaN(p) THEN <<>> ELSE <<advanceTime(t, 0, ts, p)>>
            /\ UNCHANGED <<coreVars, loopVars, saveVars, gameVars>>

TimeNext == CallAdvanceTime \/ CallAdvanceTimeNaN

SpecTime == TimeInit /\ [][TimeNext]_vars

\* C1: advanceTime(t, dt, timeScale, paused) returns t whenever paused is
\* true, for every dt and timeScale, and t + dt*timeScale whenever paused is
\* false; t = 5, dt = 1, timeScale = 20 gives 25 unpaused and 5 paused.
C1_AdvanceTimeContract ==
    (at_result # <<>> /\ ~at_dtNaN) =>
        /\ at_paused => at_result[1] = at_t
        /\ ~at_paused => at_result[1] = at_t + at_dt * at_timeScale
        /\ (at_t = 5 /\ at_dt = 1 /\ at_timeScale = 20) =>
              at_result[1] = IF at_paused THEN 5 ELSE 25

\* The paused call of the example: a positive dt was requested and time
\* stayed at 5.
C1_Witness ==
    /\ at_result = <<5>>
    /\ at_t = 5 /\ at_dt = 1 /\ at_timeScale = 20 /\ at_paused

\* C16: a step given a NaN time delta is skipped: the time after it is the
\* time before it.
C16_NaNStepSkipped ==
    at_dtNaN => (~at_resultNaN /\ at_result = <<at_t>>)

---------------------------------------------------------------------------
(* engine/ThreeRoot.ts: the frame loop.                                    *)
(*                                                                         *)
(* Time is counted in ticks of 0.05 s.  A JavaScript value read through    *)
(* optional chaining is a record; undefined and null are the empty record  *)
(* <<>>, a number x is [num |-> x].                                        *)

Field(o, f) == IF f \in DOMAIN o THEN o[f] ELSE <<>>
Coalesce(a, b) == IF DOMAIN a # {} THEN a ELSE b
\* num(v, fallback)
num(v, fallback) == IF "num" \in DOMAIN v THEN v.num ELSE fallback

\* dtRaw = Math.min(0.1, Math.max(1e-6, t - lastT)), in ticks: the clamp
\* keeps dtRaw positive and at most 0.1 s.
DtRawMin == 1
DtRawMax == 2
ClampDtRaw(elapsed) == Min(DtRawMax, Max(DtRawMin, elapsed))

\* The reads of applyCommonSettings for the time scale: state.timeScale ??
\* state.time.scale ?? state.sim.timeScale.
TimeScaleRead(state) ==
    Coalesce(Field(state, "timeScale"),
             Coalesce(Field(Field(state, "time"), "scale"),
                      Field(Field(state, "sim"), "timeScale")))

\* applyCommonSettings(state): this.timeScale = Math.max(0.0001, num(.., 1)).
\* The scales of the model are integers, for which the floor is inactive
\* from 1 on.
applyCommonSettings(state) == Max(1, num(TimeScaleRead(state), 1))

\* applyWorldStateToScene(state): the BodyInfo list.  Only b.enabled ===
\* false leaves a body out; the scales are read from state.scales /
\* state.distanceScale ..., which the snapshot does not hold, so they are 1.
SceneScale(state, f, g) ==
    Max(1, num(Coalesce(Field(Field(state, "scales"), f), Field(state, g)), 1))

RECURSIVE BodyInfos(_, _)
BodyInfos(raw, state) ==
    IF raw = <<>> THEN <<>>
    ELSE LET b == Head(raw)
             rest == BodyInfos(Tail(raw), state)
         IN  IF "enabled" \in DOMAIN b /\ b.enabled = FALSE THEN rest
             ELSE << [id |-> b.id,
                      enabled |-> TRUE,
                      pos |-> V3mul(b.position, SceneScale(state, "distance", "distanceScale")),
                      radius |-> Max(1, b.radius) * SceneScale(state, "radius", "radiusScale"),
                      mass |-> Max(1, b.mass) * SceneScale(state, "mass", "massScale")] >>
                  \o rest

applyWorldStateToScene(state) ==
    BodyInfos(Coalesce(Field(state, "bodies"), Field(Field(state, "world"), "bodies")), state)

\* safeNormalize(v): v scaled by 1/|v| when |v| > 1e-8.
safeNormalize(v) ==
    LET l2 == V3dot(v, v)
    IN  IF l2 = 0 THEN v
        ELSE <<TDiv(v[1], ISqrt(l2)), TDiv(v[2], ISqrt(l2)), TDiv(v[3], ISqrt(l2))>>

\* G = 0.08 in updateAsteroids, as GNum / GDen.
GNum == 8
GDen == 100

\* The index into bodies of the best influencer (top-1) of an asteroid at
\* pos, or 0: the first body whose acc = G*mass/r2 is above every earlier
\* body's and above 0.
BestInfluencer(bodies, pos) ==
    LET r2(i) == V3dot(V3sub(bodies[i].pos, pos), V3sub(bodies[i].pos, pos))
        ok == {i \in 1..Len(bodies) : bodies[i].enabled /\ bodies[i].mass > 0}
        best == {i \in ok : \A j \in ok :
                    /\ ~RatioGreater(bodies[j].mass, r2(j), bodies[i].mass, r2(i))
                    /\ (j < i => RatioGreater(bodies[i].mass, r2(i), bodies[j].mass, r2(j)))}
    IN  IF best = {} THEN 0 ELSE CHOOSE i \in best : TRUE

\* The slip of leaving out the break of the collision loop: the last body
\* the asteroid overlaps.
HitBody_lastOverlap(bodies, a) ==
    LET S == {i \in 1..Len(bodies) :
                 LET r == bodies[i].radius + a.radius
                     d == V3sub(a.pos, bodies[i].pos)
                 IN  V3dot(d, d) <= r * r}
    IN  IF S = {} THEN 0 ELSE CHOOSE i \in S : \A j \in S : j <= i

\* The index of the first body the asteroid overlaps, or 0.
HitBody(bodies, a) ==
    LET S == {i \in 1..Len(bodies) :
                 LET r == bodies[i].radius + a.radius
                     d == V3sub(a.pos, bodies[i].pos)
                 IN  V3dot(d, d) <= r * r}
    IN  IF S = {} THEN 0 ELSE CHOOSE i \in S : \A j \in S : i <= j

\* One iteration of the loop of updateAsteroids for an alive asteroid: the
\* asteroid after it, the impact it spawned (<<>> or <<fx>>), and the
\* stages it went through.
ILog10(x) == IF x < 10 THEN 0 ELSE IF x < 100 THEN 1 ELSE IF x < 1000 THEN 2 ELSE 3

\* spawnImpact: dur = clamp(0.55 + log10(energy + 1) * 0.18, 0.45, 1.2), in
\* ticks; energy = 0.5 * mass * v2 is kept doubled.
ImpactFx(pos, normal, energy2) ==
    [t |-> 0,
     dur |-> Min(24, Max(9, 11 + (36 * ILog10(energy2 \div 2 + 1)) \div 10)),
     pos |-> pos, normal |-> normal, energy2 |-> energy2]

\* The slip of taking v2 before the gravity update of the step.
ImpactEnergy2_beforeGravity(a, vel) == a.mass * V3dot(a.vel, a.vel)

\* energy = 0.5 * a.mass * a.vel.lengthSq(), doubled; vel is a.vel at the
\* collision test, after the gravity update of the step.
ImpactEnergy2(a, vel) == a.mass * V3dot(vel, vel)

\* The slip of < for <= in the ttl test.
Expired_strict(ttl) == ttl < 0

\* if (a.ttl <= 0)
Expired(ttl) == ttl <= 0

StepAsteroid(a, dt, bodies) ==
    IF ~a.alive THEN [a |-> a, fx |-> <<>>, log |-> <<>>]
    ELSE IF Expired(a.ttl - dt)
    THEN [a |-> [a EXCEPT !.ttl = a.ttl - dt, !.alive = FALSE], fx |-> <<>>,
          log |-> <<"ttl">>]
    ELSE
    LET bi  == BestInfluencer(bodies, a.pos)
        vel == IF bi = 0 THEN a.vel
               ELSE LET to == V3sub(bodies[bi].pos, a.pos)
                        r2 == V3dot(to, to)
                    IN  IF r2 = 0 THEN a.vel
                        ELSE V3add(a.vel,
                                   V3mul(safeNormalize(to),
                                         TDiv(GNum * bodies[bi].mass * dt, GDen * r2)))
        pos == V3add(a.pos, V3mul(vel, dt))
        moved == [a EXCEPT !.ttl = a.ttl - dt, !.vel = vel, !.pos = pos]
        hit == HitBody(bodies, moved)
    IN  IF hit = 0
        THEN [a |-> moved, fx |-> <<>>, log |-> <<"ttl", "gravity", "integrate", "collide">>]
        ELSE LET normal == safeNormalize(V3sub(pos, bodies[hit].pos))
             IN  [a |-> [moved EXCEPT !.alive = FALSE],
                  fx |-> << ImpactFx(V3add(bodies[hit].pos, V3mul(normal, bodies[hit].radius)),
                                      normal, ImpactEnergy2(a, vel)) >>,
                  log |-> <<"ttl", "gravity", "integrate", "collide", "impact">>]

RECURSIVE ConcatFx(_, _)
ConcatFx(steps, i) ==
    IF i > Len(steps) THEN <<>> ELSE steps[i].fx \o ConcatFx(steps, i + 1)

RECURSIVE ConcatLog(_, _)
ConcatLog(steps, i) ==
    IF i > Len(steps) THEN <<>> ELSE steps[i].log \o ConcatLog(steps, i + 1)

\* updateAsteroids(dt, bodies): every pool entry in turn.
updateAsteroids(pool, dt, bodies) ==
    [i \in 1..Len(pool) |-> StepAsteroid(pool[i], dt, bodies)]

\* updateImpacts(dt): every effect ages by dt and is dropped at its end.
RECURSIVE updateImpacts(_, _)
updateImpacts(fxs, dt) ==
    IF fxs = <<>> THEN <<>>
    ELSE LET fx == [Head(fxs) EXCEPT !.t = @ + dt]
         IN  (IF fx.t >= fx.dur THEN <<>> ELSE <<fx>>) \o updateImpacts(Tail(fxs), dt)

\* Lines 758-765 of loop: the dt of the frame.
FrameDt(dtRaw, ts, isPaused, step) ==
    IF step THEN dtRaw * ts
    ELSE IF isPaused THEN 0 ELSE dtRaw * ts

---------------------------------------------------------------------------
(* The engine driven by the browser and the application: start / stop,     *)
(* animation frames, the P and O keys, the asteroid brush, and the         *)
(* application handing over the store's state (syncFromStore).             *)

MaxFrames == 3
AsteroidMax == 1
BrushCount == 6
SpawnTtl == 1800

\* Wall-clock ticks between two frames.
Elapsed == {0, 5}

\* The time scales the store can hold (the integer ones) and the bodies of
\* the scene.
StoreTimeScales == {1, 20}

SceneBodies ==
    << [id |-> "sun", name |-> "Sun", kind |-> "Star", visible |-> TRUE,
        position |-> <<0, 0, 0>>, velocity |-> Zero3, radius |-> 2, mass |-> 200],
       [id |-> "earth", name |-> "Earth", kind |-> "Planet", visible |-> TRUE,
        position |-> <<8, 0, 0>>, velocity |-> Zero3, radius |-> 1, mass |-> 100],
       [id |-> "hole", name |-> "Black Hole", kind |-> "BlackHole", visible |-> TRUE,
        position |-> <<0, 0, 12>>, velocity |-> Zero3, radius |-> 1, mass |-> 80,
        blackhole |-> [horizonRadius |-> 1, absorbRadius |-> 3]],
       [id |-> "wreck", name |-> "Wreck", kind |-> "Debris", visible |-> FALSE,
        position |-> <<-30, 0, 0>>, velocity |-> Zero3, radius |-> 1, mass |-> 200] >>

\* What App hands to syncFromStore: { settings, tools, bodies, selectedId,
\* time, originOffset }; the fields the engine does not read are left out.
\* The store runs at time scale 1 or is paused at a higher one.
Snapshots ==
    {[bodies |-> SceneBodies,
      time |-> [t |-> [num |-> 0], timeScale |-> [num |-> ts], paused |-> [bool |-> ts > 1]]] :
        ts \in StoreTimeScales}

\* What the brush can spawn: position, velocity, radius, mass.
SpawnChoices ==
    {[pos |-> <<4, 0, 0>>, vel |-> <<5, 0, 0>>, radius |-> 1, mass |-> 2],
     [pos |-> <<12, 0, 0>>, vel |-> <<-10, 0, 0>>, radius |-> 1, mass |-> 1],
     [pos |-> <<2, 1, 12>>, vel |-> Zero3, radius |-> 1, mass |-> 2],
     [pos |-> <<5, 0, 0>>, vel |-> Zero3, radius |-> 3, mass |-> 1],
     [pos |-> <<-26, 0, 0>>, vel |-> <<3, 0, 0>>, radius |-> 1, mass |-> 1]}

DeadAsteroid ==
    [alive |-> FALSE, pos |-> Zero3, vel |-> Zero3, radius |-> 1, mass |-> 1, ttl |-> 0,
     launch |-> Zero3]

LoopInit ==
    /\ TimeIdle
    /\ CoreIdle
    /\ SaveIdle
    /\ GameIdle
    /\ started = FALSE
    /\ rafPending = 0
    /\ paused = FALSE
    /\ stepOnce = FALSE
    /\ time = 0
    /\ timeScale = 1
    /\ snapshot = <<>>
    /\ asteroids = [i \in 1..AsteroidMax |-> DeadAsteroid]
    /\ impacts = <<>>
    /\ frameLog = <<>>
    /\ lastFrame = <<>>
    /\ stepDts = {}
    /\ staleStep = FALSE
    /\ frames = 0

\* The body of loop() for a started engine, elapsed ticks after the last
\* frame, with pending callbacks waiting; rafPending counts the callbacks
\* requestAnimationFrame holds for loop.
FrameBody(elapsed, pending) ==
    LET dtRaw  == ClampDtRaw(elapsed)
        ts     == applyCommonSettings(snapshot)
        dt     == FrameDt(dtRaw, ts, paused, stepOnce)
        bodies == applyWorldStateToScene(snapshot)
        steps  == updateAsteroids(asteroids, dt, bodies)
    IN  /\ timeScale' = ts
        /\ stepOnce' = FALSE
        /\ time' = time + dt
        /\ IF dt > 0
           THEN /\ asteroids' = [i \in 1..Len(asteroids) |-> steps[i].a]
                /\ impacts' = updateImpacts(impacts \o ConcatFx(steps, 1), dt)
                /\ frameLog' = <<"settings", "time", "scene">> \o ConcatLog(steps, 1)
                                  \o <<"fx">>
           ELSE /\ UNCHANGED <<asteroids, impacts>>
                /\ frameLog' = <<"settings", "time", "scene">>
        /\ lastFrame' = << [dtRaw |-> dtRaw, dt |-> dt, timeScale |-> ts,
                            wasPaused |-> paused, wasStep |-> stepOnce] >>
        /\ stepDts' = IF paused /\ stepOnce THEN stepDts \cup {<<ts, dt>>} ELSE stepDts
        /\ rafPending' = pending + 1
        /\ staleStep' = FALSE
        /\ frames' = frames + 1

\* start(): nothing when already started; otherwise the first frame runs
\* inside the call, right after lastT is set.
Start ==
    /\ frames < MaxFrames
    /\ IF started THEN UNCHANGED vars
       ELSE /\ started' = TRUE
            /\ FrameBody(0, rafPending)
            /\ UNCHANGED <<paused, snapshot, timeVars, coreVars, saveVars, gameVars>>

\* The slip of leaving the pending callback in place.
cancelAnimationFrame_keeps(pending) == pending

\* cancelAnimationFrame(this.rafId): the callback requested last is dropped
\* if it is still pending.
cancelAnimationFrame(pending) == IF pending > 0 THEN pending - 1 ELSE 0

\* stop()
Stop ==
    /\ started
    /\ started' = FALSE
    /\ rafPending' = cancelAnimationFrame(rafPending)
    /\ UNCHANGED <<paused, stepOnce, time, timeScale, snapshot, asteroids, impacts,
                   frameLog, lastFrame, stepDts, frames, staleStep, timeVars, coreVars, saveVars, gameVars>>

\* The animation frame callback: loop() returns at once when the engine is
\* not started.
Frame ==
    /\ rafPending > 0
    /\ frames < MaxFrames
    /\ IF started
       THEN /\ \E elapsed \in Elapsed : FrameBody(elapsed, rafPending - 1)
            /\ UNCHANGED <<started, paused, snapshot, timeVars, coreVars, saveVars, gameVars>>
       ELSE /\ rafPending' = rafPending - 1
            /\ UNCHANGED <<started, paused, stepOnce, time, timeScale, snapshot, asteroids,
                           impacts, frameLog, lastFrame, stepDts, frames, staleStep, timeVars, coreVars,
                           saveVars, gameVars>>

\* onKeyDown, key P.  A step request that is pending when the engine
\* enters Paused is from before that pause.
KeyP ==
    /\ paused' = ~paused
    /\ staleStep' = (stepOnce /\ ~paused)
    /\ UNCHANGED <<started, rafPending, stepOnce, time, timeScale, snapshot, asteroids,
                   impacts, frameLog, lastFrame, stepDts, frames, timeVars, coreVars, saveVars, gameVars>>

\* onKeyDown, key O: a new step request.
KeyO ==
    /\ stepOnce => staleStep
    /\ stepOnce' = TRUE
    /\ staleStep' = FALSE
    /\ UNCHANGED <<started, rafPending, paused, time, timeScale, snapshot, asteroids,
                   impacts, frameLog, lastFrame, stepDts, frames, timeVars, coreVars, saveVars, gameVars>>

\* syncFromStore(snapshot) after a change of the store.
SyncFromStore ==
    /\ \E snap \in Snapshots : snap # snapshot /\ snapshot' = snap
    /\ UNCHANGED <<started, rafPending, paused, stepOnce, time, timeScale, asteroids,
                   impacts, frameLog, lastFrame, stepDts, frames, staleStep, timeVars, coreVars, saveVars, gameVars>>

\* The slip of a ring buffer: a full pool gives up its first entry.
spawnAsteroid_overwritesFirst(pool, c) ==
    LET free == {i \in 1..Len(pool) : ~pool[i].alive}
        slot == IF free = {} THEN 1 ELSE CHOOSE i \in free : \A j \in free : i <= j
    IN  [pool EXCEPT ![slot] =
            [alive |-> TRUE, pos |-> c.pos, vel |-> c.vel, radius |-> c.radius,
             mass |-> c.mass, ttl |-> SpawnTtl, launch |-> c.vel]]

\* The field launch is the model's note of the velocity the asteroid was
\* spawned with; the code keeps no such field.
\* spawnAsteroid(pos, vel, radius, mass, mat): the first entry that is not
\* alive is taken; a full pool is left as it is.
spawnAsteroid(pool, c) ==
    LET free == {i \in 1..Len(pool) : ~pool[i].alive}
    IN  IF free = {} THEN pool
        ELSE [pool EXCEPT ![CHOOSE i \in free : \A j \in free : i <= j] =
                 [alive |-> TRUE, pos |-> c.pos, vel |-> c.vel, radius |-> c.radius,
                  mass |-> c.mass, ttl |-> SpawnTtl, launch |-> c.vel]]

RECURSIVE SpawnAll(_, _, _)
SpawnAll(pool, cs, n) ==
    IF n = 0 THEN pool
    ELSE SpawnAll(spawnAsteroid(pool, cs[((n - 1) % Len(cs)) + 1]), cs, n - 1)

\* brushSpawn(): BrushCount asteroids, each with its own random draw.
BrushSpawn ==
    /\ \E i \in 1..Len(asteroids) : ~asteroids[i].alive
    /\ \E cs \in [1..Min(BrushCount, AsteroidMax) -> SpawnChoices] :
          asteroids' = SpawnAll(asteroids, cs, BrushCount)
    /\ UNCHANGED <<started, rafPending, paused, stepOnce, time, timeScale, snapshot,
                   impacts, frameLog, lastFrame, stepDts, frames, staleStep, timeVars, coreVars, saveVars, gameVars>>

LoopNext == Start \/ Stop \/ Frame \/ KeyP \/ KeyO \/ SyncFromStore \/ BrushSpawn

SpecLoop == LoopInit /\ [][LoopNext]_vars

---------------------------------------------------------------------------
(* The last ticks of an asteroid: a running engine that is not paused,     *)
(* whose pool holds asteroids spawned SpawnTtl - ttl ticks ago, and whose  *)
(* frames keep coming.                                                     *)

MaxTtlLeft == 3

TtlInit ==
    /\ TimeIdle
    /\ CoreIdle
    /\ SaveIdle
    /\ GameIdle
    /\ started = TRUE
    /\ rafPending = 1
    /\ paused = FALSE
    /\ stepOnce = FALSE
    /\ staleStep = FALSE
    /\ timeScale = 1
    /\ snapshot \in Snapshots \cup {<<>>}
    /\ \E left \in 1..MaxTtlLeft :
          /\ time = SpawnTtl - left
          /\ asteroids \in [1..AsteroidMax ->
                 {[alive |-> TRUE, pos |-> c.pos, vel |-> c.vel, radius |-> c.radius,
                   mass |-> c.mass, ttl |-> left, launch |-> c.vel] : c \in SpawnChoices}]
    /\ impacts = <<>>
    /\ frameLog = <<>>
    /\ lastFrame = <<>>
    /\ stepDts = {}
    /\ frames = 0

TtlNext == Frame

\* The step of Frame that runs a frame body, as seen on the frame counter:
\* it is possible exactly when Frame is, for a started engine.
FrameDue ==
    /\ rafPending > 0
    /\ started
    /\ frames < MaxFrames
    /\ frames' = frames + 1

\* A requested animation frame is run by the browser.
SpecTtl == TtlInit /\ [][TtlNext]_vars /\ WF_frames(FrameDue)


---------------------------------------------------------------------------
(* Properties of the frame loop.                                           *)

\* The state handed to the engine with only the bodies the specification
\* admits as gravity sources: visible and of kind Star, Planet, Moon or
\* BlackHole.
AdmittedSources(state) ==
    LET ok(b) == b.visible /\ b.kind \in {"Star", "Planet", "Moon", "BlackHole"}
    IN  IF state = <<>> THEN state
        ELSE [state EXCEPT !.bodies = SelectSeq(state.bodies, ok)]

\* C19: only visible bodies of kind Star, Planet, Moon or BlackHole are
\* gravity sources; Asteroid and Debris bodies and bodies whose visible flag
\* is false contribute no acceleration in any step: in every frame that
\* steps the asteroids, each alive asteroid leaves with the velocity it
\* would have if the bodies that are not admitted were not in the scene.
C19_OnlyAdmittedSourcesPull ==
    [][(frames' = frames + 1 /\ lastFrame'[1].dt > 0) =>
          \A i \in 1..Len(asteroids) :
              asteroids[i].alive =>
                  asteroids'[i].vel =
                      StepAsteroid(asteroids[i], lastFrame'[1].dt,
                                   applyWorldStateToScene(AdmittedSources(snapshot))).a.vel]_vars

\* C2: a single step taken while paused advances by one tick of one fixed
\* size: every frame that consumed a step request while the engine was
\* paused advanced time by the same amount.
C2_SingleStepFixedTick ==
    \A x, y \in stepDts : x[2] = y[2]

\* C3: every frame ticks with the time state handed over by the store: a
\* frame advances nothing when that state's time.paused is true and no step
\* was requested, and otherwise advances time by dtRaw times that state's
\* time.timeScale.
C3_FrameUsesExternalTime ==
    [][(frames' = frames + 1 /\ snapshot # <<>>) =>
          LET ext == Field(snapshot, "time")
          IN  IF ext.paused.bool /\ ~stepOnce
              THEN time' = time /\ asteroids' = asteroids
              ELSE time' = time + lastFrame'[1].dtRaw * ext.timeScale.num]_vars

\* C4: in every executed tick simulation time is advanced last, after the
\* gravity, integration and collision stages of the same tick.
C4_TimeAdvancedLast ==
    \A i, j \in DOMAIN frameLog :
        (frameLog[i] = "time" /\ frameLog[j] \in {"gravity", "integrate", "collide"})
            => j < i

\* The squared distance of two points.
Dist2(p, q) == V3dot(V3sub(p, q), V3sub(p, q))

\* C13: after an executed step no body is left closer to a BlackHole than
\* absorbRadius * radiusScale: every such body was removed by the step.
C13_AbsorbedWithinRadius ==
    [][(frames' = frames + 1 /\ lastFrame'[1].dt > 0 /\ snapshot # <<>>) =>
          \A i \in 1..Len(asteroids') : \A k \in 1..Len(snapshot.bodies) :
              LET b == snapshot.bodies[k]
                  R == IF b.kind = "BlackHole"
                       THEN b.blackhole.absorbRadius * SceneScale(snapshot, "radius", "radiusScale")
                       ELSE 0
              IN  (asteroids[i].alive /\ asteroids'[i].alive /\ b.kind = "BlackHole")
                      => Dist2(asteroids'[i].pos, b.position) >= R * R]_vars

\* The bodies (indices into bodies) that a overlaps.
Overlapped(bodies, a) ==
    {k \in 1..Len(bodies) :
        Dist2(a.pos, bodies[k].pos) <= (bodies[k].radius + a.radius) * (bodies[k].radius + a.radius)}

\* The impact events of the step that has just run: their age is its dt.
NewImpacts(fxs, dt) == {k \in 1..Len(fxs) : fxs[k].t = dt}

\* C14: impact resolution is single and irreversible.  In an executed step
\* an asteroid that overlaps one or more bodies is removed and emits one
\* impact event, placed on the first overlapped body in list order; the
\* step emits no other event; an asteroid that was removed before is not
\* moved, not tested and emits nothing.
C14_ImpactSingleAndIrreversible ==
    [][(frames' = frames + 1 /\ lastFrame'[1].dt > 0) =>
          LET bodies == applyWorldStateToScene(snapshot)
              dt     == lastFrame'[1].dt
              over   == {i \in 1..Len(asteroids) :
                            /\ asteroids[i].alive
                            /\ asteroids'[i].ttl > 0
                            /\ Overlapped(bodies, asteroids'[i]) # {}}
              first(i) == CHOOSE k \in Overlapped(bodies, asteroids'[i]) :
                              \A j \in Overlapped(bodies, asteroids'[i]) : k <= j
          IN  /\ \A i \in over :
                    /\ ~asteroids'[i].alive
                    /\ \E k \in NewImpacts(impacts', dt) :
                          /\ impacts'[k].normal =
                                safeNormalize(V3sub(asteroids'[i].pos, bodies[first(i)].pos))
                          /\ impacts'[k].pos =
                                V3add(bodies[first(i)].pos,
                                      V3mul(impacts'[k].normal, bodies[first(i)].radius))
              /\ Cardinality(NewImpacts(impacts', dt)) = Cardinality(over)
              /\ \A i \in 1..Len(asteroids) :
                    ~asteroids[i].alive => asteroids'[i] = asteroids[i]]_vars

\* An asteroid that overlapped the sun and the earth at once was removed, its
\* event is on the sun, and a later step has run since.
C14_Witness ==
    /\ lastFrame # <<>>
    /\ lastFrame[1].dt > 0
    /\ \E i \in 1..Len(asteroids) : ~asteroids[i].alive /\ asteroids[i].radius = 3
    /\ \E k \in 1..Len(impacts) :
          /\ impacts[k].t > lastFrame[1].dt
          /\ impacts[k].pos = <<2, 0, 0>>

\* C25: once the pause toggle has put the engine in Paused, no frame
\* advances simulation time unless a step request was made after that
\* pause: a request made before the toggle, with no frame in between, runs
\* no tick while paused.
C25_NoTickFromStaleStep ==
    [][(frames' = frames + 1 /\ paused /\ staleStep) => time' = time]_vars

\* The number of alive asteroids of a pool.
AliveCount(pool) == Cardinality({i \in 1..Len(pool) : pool[i].alive})

C28_AsteroidEventuallyRemoved ==
    /\ \A i \in 1..AsteroidMax : (asteroids[i].alive ~> ~asteroids[i].alive)
    /\ [](\A i \in 1..Len(asteroids) :
             asteroids[i].alive => (0 < asteroids[i].ttl /\ asteroids[i].ttl <= SpawnTtl))
    /\ [][(frames' = frames + 1 /\ lastFrame'[1].dt > 0) =>
             /\ \A i \in 1..Len(asteroids) :
                   asteroids[i].alive =>
                       /\ asteroids'[i].ttl = asteroids[i].ttl - lastFrame'[1].dt
                       /\ asteroids'[i].ttl <= 0 => ~asteroids'[i].alive
             /\ Cardinality(NewImpacts(impacts', lastFrame'[1].dt)) =
                   Cardinality({i \in 1..Len(asteroids) :
                                   /\ asteroids[i].alive
                                   /\ ~asteroids'[i].alive
                                   /\ asteroids'[i].ttl > 0})]_vars

\* An asteroid whose time ran out in a step was removed where it was and no
\* impact event exists.
C28_Witness ==
    /\ frames > 0
    /\ impacts = <<>>
    /\ \E i \in 1..Len(asteroids) :
          /\ ~asteroids[i].alive
          /\ asteroids[i].ttl <= 0
          /\ asteroids[i].pos # Zero3

\* C26: for any interleaving of start(), stop() and frame callbacks at most
\* one callback of the loop is pending, start() on a started engine starts
\* no second loop, a stopped engine has no callback pending, and no frame
\* body runs between a stop() and the next start().
C26_SingleLoop ==
    /\ [](rafPending <= 1 /\ (~started => rafPending = 0))
    /\ [][/\ frames' # frames => started'
          /\ (started /\ started' /\ frames' = frames) => rafPending' = rafPending]_vars

\* The engine ran two frame bodies, the one of start() and one callback,
\* and was stopped: nothing is pending.
C26_Witness ==
    /\ ~started
    /\ frames = 2
    /\ rafPending = 0
    /\ lastFrame # <<>>
    /\ lastFrame[1].dtRaw = DtRawMax

\* The bodies of the state handed over that the specification lets the
\* asteroid a hit: Planet- or Moon-kind, at a distance strictly below
\* (targetRadius + bodyRadius) * radiusScale * 0.9, compared on the squares.
SpecifiedHits(state, a) ==
    {k \in 1..Len(state.bodies) :
        LET b == state.bodies[k]
            r == (b.radius + a.radius) * SceneScale(state, "radius", "radiusScale")
            p == V3mul(b.position, SceneScale(state, "distance", "distanceScale"))
        IN  /\ b.kind \in {"Planet", "Moon"}
            /\ 100 * Dist2(a.pos, p) < 81 * r * r}

\* C24: an asteroid registers a hit if and only if a Planet- or Moon-kind
\* body is at a distance strictly below (targetRadius + bodyRadius) *
\* radiusScale * 0.9: in an executed step an alive asteroid whose ttl has
\* not run out is removed exactly when such a body exists; bodies of other
\* kinds and bodies exactly at that distance produce no impact.
C24_HitOnlyPlanetOrMoonWithin90Percent ==
    [][(frames' = frames + 1 /\ lastFrame'[1].dt > 0 /\ snapshot # <<>>) =>
          \A i \in 1..Len(asteroids) :
              (asteroids[i].alive /\ asteroids'[i].ttl > 0) =>
                  (~asteroids'[i].alive <=> SpecifiedHits(snapshot, asteroids'[i]) # {})]_vars

\* The asteroids an executed step removed by an impact.
Impacted(bodies) ==
    {i \in 1..Len(asteroids) :
        /\ asteroids[i].alive
        /\ asteroids'[i].ttl > 0
        /\ Overlapped(bodies, asteroids'[i]) # {}}

\* The event of the step that lies on the line from a body through the
\* asteroid a has the doubled energy e2.
EmittedWith(bodies, a, dt, e2) ==
    \E k \in NewImpacts(impacts', dt) : \E b \in Overlapped(bodies, a) :
        /\ impacts'[k].normal = safeNormalize(V3sub(a.pos, bodies[b].pos))
        /\ impacts'[k].energy2 = e2

\* C15 as amended: the energy of an impact event is 0.5 * mass * |v|^2 for
\* v the velocity of the asteroid at the collision test, which is its
\* velocity after the gravity update of that step; the direction of v does
\* not enter.
C15_EnergyAtContact ==
    [][(frames' = frames + 1 /\ lastFrame'[1].dt > 0) =>
          LET bodies == applyWorldStateToScene(snapshot)
          IN  \A i \in Impacted(bodies) :
                  EmittedWith(bodies, asteroids'[i], lastFrame'[1].dt,
                              asteroids'[i].mass * V3dot(asteroids'[i].vel, asteroids'[i].vel))]_vars

\* An asteroid of mass 1 hit at speed 10 and its event has energy 50.
C15_Witness ==
    /\ \E i \in 1..Len(asteroids) :
          /\ ~asteroids[i].alive
          /\ asteroids[i].mass = 1
          /\ asteroids[i].vel = <<-10, 0, 0>>
    /\ \E k \in 1..Len(impacts) : impacts[k].energy2 = 100

\* C15 as stated, with its second example: the energy of the impact event
\* of a body launched at speed s toward a planet is 0.5 * mass * s^2 (mass 2
\* at speed 5: exactly 25).
C15_EnergyOfLaunchSpeed ==
    [][(frames' = frames + 1 /\ lastFrame'[1].dt > 0) =>
          LET bodies == applyWorldStateToScene(snapshot)
          IN  \A i \in Impacted(bodies) :
                  EmittedWith(bodies, asteroids'[i], lastFrame'[1].dt,
                              asteroids'[i].mass * V3dot(asteroids'[i].launch, asteroids'[i].launch))]_vars

---------------------------------------------------------------------------
(* The application: the store, App's sync of it to the engine, and the     *)
(* save slots (App.onSaveSlot / App.onLoadSlot over storage/indexeddb).    *)

\* { ...base, ...p }; the spread of undefined (p = <<>>) adds nothing.
Spread(base, p) ==
    [f \in (DOMAIN base) \cup (DOMAIN p) |-> IF f \in DOMAIN p THEN p[f] ELSE base[f]]

\* The store as created: the fields of it that the simulation reads.
StoreInit ==
    [bodies       |-> <<>>,
     selectedId   |-> <<>>,
     originOffset |-> Zero3,
     time         |-> [t |-> 0, timeScale |-> 1, paused |-> FALSE],
     settings     |-> [gravityGScale |-> 1, gravityTopK |-> 1, mode |-> "Chaos"],
     tools        |-> [distanceScale |-> 1, radiusScale |-> 1, massScale |-> 1]]

\* What the panels hand to the setters.
TimePatches == {[paused |-> TRUE], [paused |-> FALSE], [timeScale |-> 5], [timeScale |-> 1]}
ToolPatches == {[radiusScale |-> 2], [radiusScale |-> 1]}
SettingsPatches == {[mode |-> "Realistic"], [mode |-> "Chaos"]}
BodyLists == {<<>>, SceneBodies}
Slots == {1, 2}

\* The object App's effect hands to syncFromStore.
SnapshotOf(st) ==
    [settings |-> st.settings, tools |-> st.tools, bodies |-> st.bodies,
     selectedId |-> st.selectedId, time |-> st.time, originOffset |-> st.originOffset]

SaveInit ==
    /\ TimeIdle
    /\ CoreIdle
    /\ LoopIdle
    /\ GameIdle
    /\ store = StoreInit
    /\ slots = [k \in Slots |-> <<>>]
    /\ lastWorldSnapshot = <<SnapshotOf(StoreInit)>>
    /\ saveOp = <<>>

\* A change of the store, followed by App's effect: syncFromStore(snapshot)
\* sets lastWorldSnapshot (the engine holds no store).
StoreChange(st) ==
    /\ st # store
    /\ store' = st
    /\ lastWorldSnapshot' = <<SnapshotOf(st)>>
    /\ UNCHANGED <<slots, timeVars, coreVars, loopVars, gameVars>>

setTime ==
    /\ \E p \in TimePatches : StoreChange([store EXCEPT !.time = Spread(@, p)])
    /\ saveOp' = <<>>

setTools ==
    /\ \E p \in ToolPatches : StoreChange([store EXCEPT !.tools = Spread(@, p)])
    /\ saveOp' = <<>>

setSettings ==
    /\ \E p \in SettingsPatches : StoreChange([store EXCEPT !.settings = Spread(@, p)])
    /\ saveOp' = <<>>

setBodies ==
    /\ \E b \in BodyLists : StoreChange([store EXCEPT !.bodies = b])
    /\ saveOp' = <<>>

\* makeSnapshot(): store is null, so lastWorldSnapshot is returned.
makeSnapshot == lastWorldSnapshot

\* onSaveSlot(slot): the database keeps a structured clone of the snapshot.
onSaveSlot ==
    \E k \in Slots :
        /\ makeSnapshot # <<>>
        /\ slots' = [slots EXCEPT ![k] = makeSnapshot]
        /\ saveOp' = <<[op |-> "save", slot |-> k]>>
        /\ UNCHANGED <<store, lastWorldSnapshot, timeVars, coreVars, loopVars, gameVars>>

\* onLoadSlot(slot): the setters called with snap.bodies, snap.selectedId,
\* snap.time, snap.settings, snap.challenges (undefined) and
\* snap.originOffset; snap.tools is not read.  App's effect syncs after.
Loaded(st, snap) ==
    [st EXCEPT !.bodies = snap.bodies,
               !.selectedId = snap.selectedId,
               !.time = Spread(@, snap.time),
               !.settings = Spread(@, snap.settings),
               !.originOffset = snap.originOffset]

onLoadSlot ==
    \E k \in Slots :
        /\ slots[k] # <<>>
        /\ store' = Loaded(store, slots[k][1])
        /\ lastWorldSnapshot' = <<SnapshotOf(Loaded(store, slots[k][1]))>>
        /\ saveOp' = <<[op |-> "load", slot |-> k]>>
        /\ UNCHANGED <<slots, timeVars, coreVars, loopVars, gameVars>>

SaveNext == setTime \/ setTools \/ setSettings \/ setBodies \/ onSaveSlot \/ onLoadSlot

SpecSave == SaveInit /\ [][SaveNext]_vars

\* C17: loading a slot restores the state at save time: the body list, the
\* time state, the origin offset and every global parameter the step reads
\* (G scale, top-K, mode, distance / radius / mass scale) are after the load
\* what the slot holds from the save.
C17_LoadRestoresSavedState ==
    (saveOp # <<>> /\ saveOp[1].op = "load") =>
        LET saved == slots[saveOp[1].slot][1]
        IN  /\ store.bodies = saved.bodies
            /\ store.time = saved.time
            /\ store.originOffset = saved.originOffset
            /\ store.settings = saved.settings
            /\ store.tools = saved.tools

-----------------------------------------------------------------------------
\* Gameplay: challenges (src/src/gameplay/challenges.ts).  Seconds are whole
\* numbers; a progress value p in [0, 1] is kept as the numerator p * 60
\* (timer / 60, timer / 30 and the cap 0.3 are exact in sixtieths).

ProgressDenom == 60
ProgressOne == ProgressDenom
DefendSeconds == 60
MoonSeconds == 30
MoonEscapeDist == 8
BhProgressCap == 18

ChallengeIds == {"defend-earth", "bh-absorb-50", "moon-escape"}

MaxTicks == 4
TickDts == {15, 30}

ChEarth == [name |-> "Earth", kind |-> "Planet", position |-> Zero3, radius |-> 5]
ChMoon(x) == [name |-> "Moon", kind |-> "Moon", position |-> <<x, 0, 0>>, radius |-> 1]
ChRock(kind, x) == [name |-> "Rock", kind |-> kind, position |-> <<0, x, 0>>, radius |-> 1]
ChHole == [name |-> "Black Hole", kind |-> "BlackHole", position |-> <<20, 0, 0>>, radius |-> 1]

\* the body lists a tick can be handed
TickScenes ==
    { <<ChEarth, ChMoon(3)>>,
      <<ChEarth, ChMoon(9)>>,
      <<ChEarth, ChMoon(8), ChRock("Debris", 8)>>,
      <<ChEarth, ChRock("Asteroid", 7), ChMoon(9), ChHole>>,
      <<ChMoon(9), ChHole>> }

\* bodies.find(pred): <<>> when nothing matches, else the first match
FindByName(bodies, name) ==
    LET hits == {i \in 1..Len(bodies) : bodies[i].name = name}
    IN  IF hits = {} THEN <<>>
        ELSE <<bodies[CHOOSE i \in hits : \A j \in hits : i <= j]>>

FindByKind(bodies, kind) ==
    LET hits == {i \in 1..Len(bodies) : bodies[i].kind = kind}
    IN  IF hits = {} THEN <<>>
        ELSE <<bodies[CHOOSE i \in hits : \A j \in hits : i <= j]>>

\* x ?? 0
OrZero(x) == IF x = <<>> THEN 0 ELSE x[1]

\* V3.len(b.position - earth.position) < earth.radius * 1.6, on squares
Danger(bodies, earth) ==
    \E i \in 1..Len(bodies) :
        /\ bodies[i].kind \in {"Asteroid", "Debris"}
        /\ 100 * Dist2(bodies[i].position, earth.position) < 256 * earth.radius * earth.radius

\* V3.len(moon.position - earth.position) > 8, on squares
Escaped(moon, earth) ==
    Dist2(moon.position, earth.position) > MoonEscapeDist * MoonEscapeDist

InitialChallenges ==
    [progress |-> [id \in ChallengeIds |-> <<>>],
     completed |-> [id \in ChallengeIds |-> <<>>]]

Completed(ch, id) == ch.completed[id] # <<>> /\ ch.completed[id][1]

setChallenges(ch, p) == [k \in DOMAIN ch |-> IF k \in DOMAIN p THEN p[k] ELSE ch[k]]

markDone(ch, id) ==
    IF Completed(ch, id) THEN ch
    ELSE setChallenges(ch, [completed |-> [ch.completed EXCEPT ![id] = <<TRUE>>],
                            progress |-> [ch.progress EXCEPT ![id] = <<ProgressOne>>]])

setProg_overwrites(ch, id, p) ==
    IF Completed(ch, id) THEN ch
    ELSE setChallenges(ch, [progress |-> [ch.progress EXCEPT ![id] = <<p>>]])

setProg(ch, id, p) ==
    IF Completed(ch, id) THEN ch
    ELSE setChallenges(ch, [progress |->
             [ch.progress EXCEPT ![id] = <<Max(OrZero(ch.progress[id]), p)>>]])

\* the three blocks of tickChallenges, each from the state the one before left
TickDefend(st, bodies, dt) ==
    LET earth == FindByName(bodies, "Earth")
    IN  IF earth = <<>> THEN st
        ELSE LET timer == IF Danger(bodies, earth[1]) THEN 0 ELSE OrZero(st.timers.defend) + dt
                 ch1 == setProg(st.ch, "defend-earth", Min(ProgressOne, timer))
             IN  [ch |-> IF timer >= DefendSeconds THEN markDone(ch1, "defend-earth") ELSE ch1,
                  timers |-> [st.timers EXCEPT !.defend = <<timer>>]]

TickBlackHole(st, bodies, dt) ==
    IF FindByKind(bodies, "BlackHole") = <<>> THEN st
    ELSE LET bhTime == OrZero(st.timers.bh) + dt
         IN  [ch |-> setProg(st.ch, "bh-absorb-50", Min(BhProgressCap, bhTime)),
              timers |-> [st.timers EXCEPT !.bh = <<bhTime>>]]

TickMoon(st, bodies, dt) ==
    LET earth == FindByName(bodies, "Earth")
        moon == FindByName(bodies, "Moon")
    IN  IF moon = <<>> \/ earth = <<>> THEN st
        ELSE LET timer == IF Escaped(moon[1], earth[1]) THEN OrZero(st.timers.moon) + dt ELSE 0
                 ch1 == setProg(st.ch, "moon-escape", Min(ProgressOne, 2 * timer))
             IN  [ch |-> IF timer >= MoonSeconds THEN markDone(ch1, "moon-escape") ELSE ch1,
                  timers |-> [st.timers EXCEPT !.moon = <<timer>>]]

tickChallenges ==
    \E bodies \in TickScenes, dt \in TickDts :
        /\ Len(chLog) < MaxTicks
        /\ LET st == TickMoon(TickBlackHole(TickDefend([ch |-> challenges, timers |-> chTimers],
                                                       bodies, dt), bodies, dt), bodies, dt)
           IN  /\ challenges' = st.ch
               /\ chTimers' = st.timers
        /\ chLog' = Append(chLog, [bodies |-> bodies, dt |-> dt])
        /\ UNCHANGED <<timeVars, coreVars, loopVars, saveVars>>

ChalInit ==
    /\ TimeIdle
    /\ CoreIdle
    /\ LoopIdle
    /\ SaveIdle
    /\ challenges = InitialChallenges
    /\ chTimers = [defend |-> <<>>, bh |-> <<>>, moon |-> <<>>]
    /\ chLog = <<>>

ChalNext == tickChallenges

SpecChal == ChalInit /\ [][ChalNext]_vars

Progress(ch, id) == OrZero(ch.progress[id])

\* seconds of the ticks since the last tick that saw Earth in danger, counting
\* the ticks that saw Earth
RECURSIVE QuietSeconds(_)
QuietSeconds(log) ==
    IF log = <<>> THEN 0
    ELSE LET last == log[Len(log)]
             earth == FindByName(last.bodies, "Earth")
             before == SubSeq(log, 1, Len(log) - 1)
         IN  IF earth = <<>> THEN QuietSeconds(before)
             ELSE IF Danger(last.bodies, earth[1]) THEN 0
             ELSE QuietSeconds(before) + last.dt

\* seconds of the ticks since the last tick that saw the Moon within 8 of
\* Earth, counting the ticks that saw both
RECURSIVE AwaySeconds(_)
AwaySeconds(log) ==
    IF log = <<>> THEN 0
    ELSE LET last == log[Len(log)]
             earth == FindByName(last.bodies, "Earth")
             moon == FindByName(last.bodies, "Moon")
             before == SubSeq(log, 1, Len(log) - 1)
         IN  IF earth = <<>> \/ moon = <<>> THEN AwaySeconds(before)
             ELSE IF Escaped(moon[1], earth[1]) THEN AwaySeconds(before) + last.dt
             ELSE 0

LastTickDanger ==
    LET last == chLog[Len(chLog)]
        earth == FindByName(last.bodies, "Earth")
    IN  earth # <<>> /\ Danger(last.bodies, earth[1])

\* C29: over any sequence of tickChallenges calls no challenge's progress
\* decreases, a completed challenge stays completed with progress 1, a tick
\* that sees an Asteroid or Debris within 1.6 * earth.radius of Earth resets
\* the defend timer to 0, 'defend-earth' becomes done only with at least 60
\* seconds of ticks since the last such tick, and 'moon-escape' only with at
\* least 30 seconds of ticks since the Moon was last within 8 of Earth.
C29_ProgressMonotoneCompletionSticky ==
    /\ [](challenges # <<>> =>
            \A id \in ChallengeIds :
                Completed(challenges, id) => challenges.progress[id] = <<ProgressOne>>)
    /\ [][challenges # <<>> =>
            /\ \A id \in ChallengeIds :
                  /\ Progress(challenges', id) >= Progress(challenges, id)
                  /\ Completed(challenges, id) => Completed(challenges', id)
            /\ LastTickDanger' => chTimers'.defend = <<0>>
            /\ (Completed(challenges', "defend-earth") /\ ~Completed(challenges, "defend-earth"))
                  => QuietSeconds(chLog') >= DefendSeconds
            /\ (Completed(challenges', "moon-escape") /\ ~Completed(challenges, "moon-escape"))
                  => AwaySeconds(chLog') >= MoonSeconds]_vars

\* a danger tick after half a minute of quiet, then a full quiet minute that
\* completes 'defend-earth'
C29_Witness ==
    /\ Len(chLog) = MaxTicks
    /\ Completed(challenges, "defend-earth")
    /\ chLog[1].dt = 30 /\ FindByName(chLog[1].bodies, "Earth") # <<>>
    /\ ~Danger(chLog[1].bodies, ChEarth)
    /\ Danger(chLog[2].bodies, ChEarth)
    /\ QuietSeconds(chLog) = DefendSeconds
    /\ ~Completed(challenges, "moon-escape")
    /\ Progress(challenges, "moon-escape") = ProgressOne \div 2

-----------------------------------------------------------------------------
\* Gameplay: presets (src/src/gameplay/presets.ts) applied to the store by
\* App.onLoadPreset.  The scalers and the asteroid mass are in thousandths
\* (distanceScale 0.02 is 20); a body is kept as its name, which also stands
\* for the id makePlanetBase gives it; null is <<>>.

PresetIds == {"earth-moon", "saturn-rings", "asteroid-range", "blackhole-lab",
              "binary-stars", "scaled-solar-system"}

AsteroidFields == {"rate", "speed", "mass", "material", "directionMode"}

defaultTools ==
    [distanceScale |-> 20, radiusScale |-> 1000, massScale |-> 1000,
     asteroid |-> [brushOn |-> FALSE, rate |-> 20, speed |-> 8, mass |-> 10,
                   material |-> "Rock", directionMode |-> "Camera"],
     trackId |-> <<>>]

PresetStoreInit ==
    [bodies       |-> <<>>,
     selectedId   |-> <<>>,
     originOffset |-> Zero3,
     time         |-> [t |-> 0, timeScale |-> 1, paused |-> FALSE],
     settings     |-> [gravityGScale |-> 1, gravityTopK |-> 1, mode |-> "Chaos"],
     tools        |-> defaultTools]

baseSettings == [gravityTopK |-> 1, gravityGScale |-> 1]

\* what the asteroid panel and the time panel hand to the setters
AsteroidPatches ==
    {[brushOn |-> TRUE], [brushOn |-> FALSE], [rate |-> 40], [speed |-> 12],
     [material |-> "Ice"], [directionMode |-> "RelativeToSelected"]}
PanelTimePatches == {[paused |-> TRUE], [timeScale |-> 5]}

\* (api as any).tools?.asteroid ?? {}: the api object App hands over holds
\* the six setters and no tools, so the spread adds nothing
ApiToolsAsteroid(api) == IF "tools" \in DOMAIN api THEN api.tools.asteroid ELSE <<>>

\* the object App.onLoadPreset passes as api: the setters of the store
PresetApi == [setBodies |-> TRUE, setSelected |-> TRUE, setTime |-> TRUE,
                  setSettings |-> TRUE, setTools |-> TRUE, setOriginOffset |-> TRUE]

\* the arguments of the six setter calls of a preset
PresetCalls(id, api) ==
    CASE id = "scaled-solar-system" ->
            [tools |-> [distanceScale |-> 20, radiusScale |-> 1000, massScale |-> 1000,
                        trackId |-> <<>>],
             settings |-> Spread(baseSettings, [mode |-> "Realistic"]),
             bodies |-> <<"Sun", "Mercury", "Venus", "Earth", "Moon", "Mars">>,
             selected |-> <<>>,
             time |-> [t |-> 0, timeScale |-> 20, paused |-> FALSE]]
      [] id = "earth-moon" ->
            [tools |-> [distanceScale |-> 30, radiusScale |-> 1200, massScale |-> 1000,
                        trackId |-> <<"Earth">>],
             settings |-> Spread(baseSettings, [mode |-> "Realistic"]),
             bodies |-> <<"Sun", "Earth", "Moon">>,
             selected |-> <<"Earth">>,
             time |-> [t |-> 0, timeScale |-> 1, paused |-> FALSE]]
      [] id = "saturn-rings" ->
            [tools |-> [distanceScale |-> 25, radiusScale |-> 1200, massScale |-> 1000,
                        trackId |-> <<"Saturn">>],
             settings |-> Spread(baseSettings, [mode |-> "Realistic"]),
             bodies |-> <<"Sun", "Saturn">>,
             selected |-> <<"Saturn">>,
             time |-> [t |-> 0, timeScale |-> 5, paused |-> FALSE]]
      [] id = "asteroid-range" ->
            [tools |-> [distanceScale |-> 30, radiusScale |-> 1000, massScale |-> 1200,
                        trackId |-> <<"Target">>,
                        asteroid |-> Spread(ApiToolsAsteroid(api), [brushOn |-> TRUE])],
             settings |-> Spread(baseSettings, [mode |-> "Chaos"]),
             bodies |-> <<"Sun", "Target">>,
             selected |-> <<"Target">>,
             time |-> [t |-> 0, timeScale |-> 1, paused |-> FALSE]]
      [] id = "blackhole-lab" ->
            [tools |-> [distanceScale |-> 30, radiusScale |-> 1200, massScale |-> 1000,
                        trackId |-> <<"Black Hole">>],
             settings |-> Spread(baseSettings, [mode |-> "Chaos"]),
             bodies |-> <<"Sun", "Lensed Planet", "Black Hole">>,
             selected |-> <<"Black Hole">>,
             time |-> [t |-> 0, timeScale |-> 1, paused |-> FALSE]]
      [] id = "binary-stars" ->
            [tools |-> [distanceScale |-> 40, radiusScale |-> 1200, massScale |-> 1000,
                        trackId |-> <<"Circumbinary">>],
             settings |-> Spread(baseSettings, [mode |-> "Chaos"]),
             bodies |-> <<"Star A", "Star B", "Circumbinary">>,
             selected |-> <<"Circumbinary">>,
             time |-> [t |-> 0, timeScale |-> 1, paused |-> FALSE]]

\* applyPreset(id, api) on the store st: setTools, setSettings, setBodies,
\* setSelected, setTime, setOriginOffset, each merging as the store does
applyPreset(st, id, api) ==
    LET c == PresetCalls(id, api)
    IN  [st EXCEPT !.tools = Spread(@, c.tools),
                   !.settings = Spread(@, c.settings),
                   !.bodies = c.bodies,
                   !.selectedId = c.selected,
                   !.time = Spread(@, c.time),
                   !.originOffset = Zero3]

onLoadPreset ==
    \E id \in PresetIds :
        /\ store' = applyPreset(store, id, PresetApi)
        /\ lastWorldSnapshot' = <<SnapshotOf(store')>>
        /\ saveOp' = <<[op |-> "preset", id |-> id]>>
        /\ UNCHANGED <<slots, timeVars, coreVars, loopVars, gameVars>>

asteroidPanel ==
    /\ \E p \in AsteroidPatches :
          StoreChange([store EXCEPT !.tools = Spread(@, [asteroid |-> Spread(store.tools.asteroid, p)])])
    /\ saveOp' = <<>>

timePanel ==
    /\ \E p \in PanelTimePatches : StoreChange([store EXCEPT !.time = Spread(@, p)])
    /\ saveOp' = <<>>

PresetInit ==
    /\ TimeIdle
    /\ CoreIdle
    /\ LoopIdle
    /\ GameIdle
    /\ store = PresetStoreInit
    /\ slots = [k \in Slots |-> <<>>]
    /\ lastWorldSnapshot = <<SnapshotOf(PresetStoreInit)>>
    /\ saveOp = <<>>

PresetNext == onLoadPreset \/ asteroidPanel \/ timePanel

SpecPreset == PresetInit /\ [][PresetNext]_vars

\* obj[f], undefined (<<>>) when obj has no field f
FieldOf(obj, f) == IF f \in DOMAIN obj THEN <<obj[f]>> ELSE <<>>

\* C30: for every preset id, after applyPreset the asteroid tool's rate,
\* speed, mass, material and directionMode equal their values before the
\* call, brushOn is true for 'asteroid-range' and otherwise as before, and
\* time has t = 0, paused = false and originOffset is [0,0,0].
C30_PresetKeepsAsteroidTool ==
    [][\A id \in PresetIds :
          saveOp' = <<[op |-> "preset", id |-> id]>> =>
              /\ \A f \in AsteroidFields :
                    FieldOf(store'.tools.asteroid, f) = FieldOf(store.tools.asteroid, f)
              /\ FieldOf(store'.tools.asteroid, "brushOn") =
                    (IF id = "asteroid-range" THEN <<TRUE>>
                     ELSE FieldOf(store.tools.asteroid, "brushOn"))
              /\ store'.time.t = 0
              /\ store'.time.paused = FALSE
              /\ store'.originOffset = Zero3]_vars

=============================================================================
